---- MODULE Spec2Model ----
(***************************************************************************)
(* Model of the CSV ingestion pipeline of                                  *)
(* backend/app/services/csv_processor.py (class CSVProcessor and           *)
(* process_csv_file).                                                      *)
(*                                                                         *)
(* Text is a sequence of one-character strings.  A cell of the decoded    *)
(* DataFrame is either such a text or the float NaN pandas stores for a   *)
(* missing value (PdNaN).  Decimal values are kept exactly: a parsed cell  *)
(* is a sign, an integer part and a sequence of fraction digits, and a     *)
(* quantized value is an integer number of cents (or the Decimal NaN).     *)
(***************************************************************************)
EXTENDS Integers, Sequences, FiniteSets, TLC

(***************************************************************************)
(* Python values                                                           *)
(***************************************************************************)

\* float('nan') as pandas stores a missing cell (dtype=str, na_values=...)
PdNaN == <<"float:nan">>

\* Python None where a text is optional (ValidationIssue.original_value)
NoneText == <<"py:None">>

\* a cell on which the date library raises an error that is neither a
\* ValueError nor an InvalidOperation (the case _transform_data's
\* `except Exception` is written for)
PoisonChar == "chr:unexpected"

\* the characters U+20AC and U+00A3
EuroSign == "chr:euro"

PoundSign == "chr:pound"

DigitChars == <<"0", "1", "2", "3", "4", "5", "6", "7", "8", "9">>

IsDigit(ch) == \E i \in 1..10 : DigitChars[i] = ch

DigitValue(ch) == (CHOOSE i \in 1..10 : DigitChars[i] = ch) - 1

AllDigits(s) == \A i \in 1..Len(s) : IsDigit(s[i])

RECURSIVE DigitsToNat(_)
DigitsToNat(s) ==
    IF s = <<>> THEN 0
    ELSE DigitsToNat(SubSeq(s, 1, Len(s) - 1)) * 10 + DigitValue(s[Len(s)])

\* str(n) of a non-negative int
RECURSIVE NatToText(_)
NatToText(n) ==
    IF n < 10 THEN <<DigitChars[n + 1]>>
    ELSE Append(NatToText(n \div 10), DigitChars[(n % 10) + 1])

\* pd.isna(value)
IsNa(value) == value = PdNaN

\* str(value) of a cell: str(float('nan')) is "nan"
Str(value) == IF IsNa(value) THEN <<"n", "a", "n">> ELSE value

IsSpace(ch) == ch = " "

RECURSIVE LStrip(_)
LStrip(s) ==
    IF s # <<>> /\ IsSpace(Head(s)) THEN LStrip(Tail(s)) ELSE s

RECURSIVE RStrip(_)
RStrip(s) ==
    IF s # <<>> /\ IsSpace(s[Len(s)])
    THEN RStrip(SubSeq(s, 1, Len(s) - 1))
    ELSE s

\* str.strip()
Strip(s) == RStrip(LStrip(s))

\* str.startswith / str.endswith with a one-character argument
StartsWith(s, ch) == s # <<>> /\ Head(s) = ch

EndsWith(s, ch) == s # <<>> /\ s[Len(s)] = ch

\* chained str.replace(ch, "") for every ch of chars
RemoveChars(s, chars) == SelectSeq(s, LAMBDA ch : ch \notin chars)

\* the position of the first ch in s, 0 when there is none
FirstIndex(s, ch) ==
    IF \E i \in 1..Len(s) : s[i] = ch
    THEN CHOOSE i \in 1..Len(s) : s[i] = ch /\ \A j \in 1..(i - 1) : s[j] # ch
    ELSE 0

\* str.split(sep)
RECURSIVE Split(_, _)
Split(s, sep) ==
    LET i == FirstIndex(s, sep)
    IN  IF i = 0 THEN <<s>>
        ELSE <<SubSeq(s, 1, i - 1)>> \o Split(SubSeq(s, i + 1, Len(s)), sep)

(***************************************************************************)
(* decimal.Decimal                                                         *)
(***************************************************************************)

\* A Decimal as the constructor reads it: valid = FALSE stands for
\* InvalidOperation.  The grammar modelled is  [sign] digits [. digits],
\* [sign] . digits  and  [sign] NaN [digits]; exponents, underscores and
\* Infinity use characters outside the modelled alphabet.
InvalidDecimal == [valid |-> FALSE, nan |-> FALSE, neg |-> FALSE, units |-> 0, frac |-> <<>>]

IsNaNLiteral(s) ==
    /\ Len(s) >= 3
    /\ s[1] \in {"N", "n"}
    /\ s[2] \in {"A", "a"}
    /\ s[3] \in {"N", "n"}
    /\ AllDigits(SubSeq(s, 4, Len(s)))

DecimalCtor(s) ==
    LET signed == s # <<>> /\ Head(s) \in {"+", "-"}
        neg    == signed /\ Head(s) = "-"
        body   == IF signed THEN Tail(s) ELSE s
        dot    == FirstIndex(body, ".")
        ipart  == IF dot = 0 THEN body ELSE SubSeq(body, 1, dot - 1)
        fpart  == IF dot = 0 THEN <<>> ELSE SubSeq(body, dot + 1, Len(body))
    IN  IF IsNaNLiteral(body)
        THEN [valid |-> TRUE, nan |-> TRUE, neg |-> neg, units |-> 0, frac |-> <<>>]
        ELSE IF AllDigits(ipart) /\ AllDigits(fpart) /\ Len(ipart) + Len(fpart) > 0
        THEN [valid |-> TRUE, nan |-> FALSE, neg |-> neg,
              units |-> DigitsToNat(ipart), frac |-> fpart]
        ELSE InvalidDecimal

\* unary minus
DecimalNeg(d) == [d EXCEPT !.neg = ~d.neg]

\* A quantized Decimal: NaN, or an integer number of cents.
DecNaN == [nan |-> TRUE, c |-> 0]

Cents(n) == [nan |-> FALSE, c |-> n]

FracDigit(frac, i) == IF i <= Len(frac) THEN DigitValue(frac[i]) ELSE 0

\* d.quantize(Decimal("0.01")) under the default context (ROUND_HALF_EVEN)
Quantize(d) ==
    IF d.nan THEN DecNaN
    ELSE
    LET base == d.units * 100 + FracDigit(d.frac, 1) * 10 + FracDigit(d.frac, 2)
        rest == SubSeq(d.frac, 3, Len(d.frac))
        tailNonZero == \E i \in 2..Len(rest) : rest[i] # "0"
        up   == /\ rest # <<>>
                /\ \/ DigitValue(rest[1]) > 5
                   \/ DigitValue(rest[1]) = 5 /\ (tailNonZero \/ base % 2 = 1)
        mag  == IF up THEN base + 1 ELSE base
    IN  Cents(IF d.neg THEN -mag ELSE mag)

\* a - b
DecSub(a, b) == IF a.nan \/ b.nan THEN DecNaN ELSE Cents(a.c - b.c)

\* a != 0  (NaN compares unequal to everything)
DecNonZero(a) == a.nan \/ a.c # 0

\* a == 0
DecIsZero(a) == ~a.nan /\ a.c = 0

\* str(d) of a quantized Decimal
DecToText(a) ==
    IF a.nan THEN <<"N", "a", "N">>
    ELSE
    LET mag == IF a.c < 0 THEN -a.c ELSE a.c
    IN  (IF a.c < 0 THEN <<"-">> ELSE <<>>)
        \o NatToText(mag \div 100)
        \o <<".", DigitChars[((mag % 100) \div 10) + 1], DigitChars[(mag % 10) + 1]>>

(***************************************************************************)
(* Class constants of CSVProcessor                                         *)
(***************************************************************************)

COL_DATE == 0

COL_DESCRIPTION == 1

COL_DEBIT == 2

COL_CREDIT == 3

REQUIRED_COLUMNS == 4

MAX_DESCRIPTION_LENGTH == 500

\* A strptime format: its text, the order of its three directives and the
\* separator between them.
DateFmt(text, order, sep) == [text |-> text, order |-> order, sep |-> sep]

DATE_FORMAT == DateFmt("%Y-%m-%d", <<"Y", "m", "d">>, "-")

\* alternative_formats with the day-first format tried before the month-first
alternative_formats_DayFirst ==
    << DateFmt("%d/%m/%Y", <<"d", "m", "Y">>, "/"),
       DateFmt("%m/%d/%Y", <<"m", "d", "Y">>, "/"),
       DateFmt("%m-%d-%Y", <<"m", "d", "Y">>, "-"),
       DateFmt("%Y/%m/%d", <<"Y", "m", "d">>, "/"),
       DateFmt("%d-%m-%Y", <<"d", "m", "Y">>, "-") >>

alternative_formats ==
    << DateFmt("%m/%d/%Y", <<"m", "d", "Y">>, "/"),
       DateFmt("%d/%m/%Y", <<"d", "m", "Y">>, "/"),
       DateFmt("%m-%d-%Y", <<"m", "d", "Y">>, "-"),
       DateFmt("%Y/%m/%d", <<"Y", "m", "d">>, "/"),
       DateFmt("%d-%m-%Y", <<"d", "m", "Y">>, "-") >>

(***************************************************************************)
(* ValidationIssue and _add_issue                                          *)
(***************************************************************************)

Issue(row_number, column, severity, message, original_value) ==
    [row_number |-> row_number, column |-> column, severity |-> severity,
     message |-> message, original_value |-> original_value]

(***************************************************************************)
(* pd.to_datetime(date_str, format=fmt)                                    *)
(***************************************************************************)

IsLeap(y) == (y % 4 = 0 /\ y % 100 # 0) \/ y % 400 = 0

DaysInMonth(y, m) ==
    IF m = 2 THEN (IF IsLeap(y) THEN 29 ELSE 28)
    ELSE IF m \in {4, 6, 9, 11} THEN 30 ELSE 31

\* does the text of one field match its directive (%Y: four digits; %m and
\* %d: one or two digits in range)
FieldMatches(directive, part) ==
    /\ AllDigits(part)
    /\ IF directive = "Y" THEN Len(part) = 4 /\ DigitsToNat(part) >= 1
       ELSE IF directive = "m" THEN Len(part) \in {1, 2} /\ DigitsToNat(part) \in 1..12
       ELSE Len(part) \in {1, 2} /\ DigitsToNat(part) \in 1..31

FieldOf(fmt, parts, directive) ==
    DigitsToNat(parts[CHOOSE i \in 1..3 : fmt.order[i] = directive])

NoDate == [y |-> 0, m |-> 0, d |-> 0]

\* the date the three fields name, when the calendar has it
CalendarDate(y, m, d) ==
    IF d <= DaysInMonth(y, m)
    THEN [ok |-> TRUE, date |-> [y |-> y, m |-> m, d |-> d]]
    ELSE [ok |-> FALSE, date |-> NoDate]

DateOfParts(parts, fmt) ==
    IF Len(parts) = 3 /\ \A i \in 1..3 : FieldMatches(fmt.order[i], parts[i])
    THEN CalendarDate(FieldOf(fmt, parts, "Y"), FieldOf(fmt, parts, "m"),
                      FieldOf(fmt, parts, "d"))
    ELSE [ok |-> FALSE, date |-> NoDate]

\* ok = FALSE stands for the ValueError of a text that does not match
ToDatetime(date_str, fmt) == DateOfParts(Split(date_str, fmt.sep), fmt)

\* the library raising something other than ValueError on this text
RaisesUnexpected(date_str) == \E i \in 1..Len(date_str) : date_str[i] = PoisonChar

(***************************************************************************)
(* The field parsers.  Each returns its value together with the issues     *)
(* it passes to _add_issue, in order.                                      *)
(***************************************************************************)

\* index of the first alternative format that parses date_str, 0 if none
FirstAlternative(date_str) ==
    IF \E i \in 1..Len(alternative_formats) : ToDatetime(date_str, alternative_formats[i]).ok
    THEN CHOOSE i \in 1..Len(alternative_formats) :
            /\ ToDatetime(date_str, alternative_formats[i]).ok
            /\ \A j \in 1..(i - 1) : ~ToDatetime(date_str, alternative_formats[j]).ok
    ELSE 0

\* ParseDateAlternative reporting the unparseable text as a Warning
ParseDateAlternative_Warning(date_str, alt, row_num) ==
    IF alt # 0
    THEN [status |-> "ok",
          date |-> ToDatetime(date_str, alternative_formats[alt]).date,
          issues |-> << Issue(row_num, "Date", "info",
                              <<"Date parsed with alternative format '",
                                alternative_formats[alt].text, "'">>,
                              date_str) >>]
    ELSE [status |-> "none", date |-> NoDate,
          issues |-> << Issue(row_num, "Date", "warning",
                              <<"Invalid date format. Expected YYYY-MM-DD, got '">>
                                  \o date_str \o <<"'">>,
                              date_str) >>]

\* _parse_date from the loop over alternative_formats on; alt is the first
\* format that parses
ParseDateAlternative(date_str, alt, row_num) ==
    IF alt # 0
    THEN [status |-> "ok",
          date |-> ToDatetime(date_str, alternative_formats[alt]).date,
          issues |-> << Issue(row_num, "Date", "info",
                              <<"Date parsed with alternative format '",
                                alternative_formats[alt].text, "'">>,
                              date_str) >>]
    ELSE [status |-> "none", date |-> NoDate,
          issues |-> << Issue(row_num, "Date", "error",
                              <<"Invalid date format. Expected YYYY-MM-DD, got '">>
                                  \o date_str \o <<"'">>,
                              date_str) >>]

\* _parse_date from date_str = str(value).strip() on
ParseDateText(date_str, row_num) ==
    IF RaisesUnexpected(date_str)
    THEN [status |-> "raise", date |-> NoDate, issues |-> <<>>]
    ELSE IF ToDatetime(date_str, DATE_FORMAT).ok
    THEN [status |-> "ok", date |-> ToDatetime(date_str, DATE_FORMAT).date,
          issues |-> <<>>]
    ELSE ParseDateAlternative(date_str, FirstAlternative(date_str), row_num)

\* _parse_date: status "ok" (a date), "none" (returns None) or "raise"
_parse_date(value, row_num) ==
    IF IsNa(value) \/ Strip(Str(value)) = <<>>
    THEN [status |-> "none", date |-> NoDate,
          issues |-> << Issue(row_num, "Date", "error",
                              <<"Date is required but missing">>, Str(value)) >>]
    ELSE ParseDateText(Strip(Str(value)), row_num)

\* TruncateDescription keeping the last MAX_DESCRIPTION_LENGTH characters
TruncateDescription_KeepsEnd(description, row_num) ==
    IF Len(description) > MAX_DESCRIPTION_LENGTH
    THEN [description |-> SubSeq(description,
                                 Len(description) - MAX_DESCRIPTION_LENGTH + 1,
                                 Len(description)),
          issues |-> << Issue(row_num, "Description", "warning",
                              <<"Description truncated from ">>
                                  \o NatToText(Len(description)) \o <<" to ">>
                                  \o NatToText(MAX_DESCRIPTION_LENGTH)
                                  \o <<" characters">>,
                              NoneText) >>]
    ELSE [description |-> description, issues |-> <<>>]

\* _parse_description from description = str(value).strip() on
TruncateDescription(description, row_num) ==
    IF Len(description) > MAX_DESCRIPTION_LENGTH
    THEN [description |-> SubSeq(description, 1, MAX_DESCRIPTION_LENGTH),
          issues |-> << Issue(row_num, "Description", "warning",
                              <<"Description truncated from ">>
                                  \o NatToText(Len(description)) \o <<" to ">>
                                  \o NatToText(MAX_DESCRIPTION_LENGTH)
                                  \o <<" characters">>,
                              NoneText) >>]
    ELSE [description |-> description, issues |-> <<>>]

\* _parse_description reporting an empty description as an Error
_parse_description_EmptyIsError(value, row_num) ==
    IF IsNa(value) \/ Strip(Str(value)) = <<>>
    THEN [description |-> <<"No description">>,
          issues |-> << Issue(row_num, "Description", "error",
                              <<"Description is empty, using 'No description'">>,
                              Str(value)) >>]
    ELSE TruncateDescription(Strip(Str(value)), row_num)

\* _parse_description: never None
_parse_description(value, row_num) ==
    IF IsNa(value) \/ Strip(Str(value)) = <<>>
    THEN [description |-> <<"No description">>,
          issues |-> << Issue(row_num, "Description", "warning",
                              <<"Description is empty, using 'No description'">>,
                              Str(value)) >>]
    ELSE TruncateDescription(Strip(Str(value)), row_num)

\* value_str wrapped in parentheses, and what is between them
IsParenthesized(value_str) == StartsWith(value_str, "(") /\ EndsWith(value_str, ")")

Unparenthesized(value_str) ==
    IF IsParenthesized(value_str)
    THEN SubSeq(value_str, 2, Len(value_str) - 1)
    ELSE value_str

\* the explicit negative sign: is_negative is set, never toggled
\* TakeMinus negating once more for the minus sign
TakeMinus_NegatesAgain(is_negative, value_str) ==
    [is_negative |-> is_negative # StartsWith(value_str, "-"),
     value_str   |-> IF StartsWith(value_str, "-") THEN Tail(value_str) ELSE value_str]

TakeMinus(is_negative, value_str) ==
    [is_negative |-> is_negative \/ StartsWith(value_str, "-"),
     value_str   |-> IF StartsWith(value_str, "-") THEN Tail(value_str) ELSE value_str]

\* MonetaryText taking no sign from the parentheses
MonetaryText_ParenthesesNotNegative(value_str) ==
    TakeMinus(FALSE,
              RemoveChars(Unparenthesized(value_str),
                          {"$", EuroSign, PoundSign, ",", " "}))

\* the text Decimal() is given, and the sign the code has taken off it
MonetaryText(value_str) ==
    TakeMinus(IsParenthesized(value_str),
              RemoveChars(Unparenthesized(value_str),
                          {"$", EuroSign, PoundSign, ",", " "}))

\* MonetaryResult recording an invalid value as a Warning
MonetaryResult_InvalidIsWarning(parsed, is_negative, value, column_name, row_num) ==
    IF parsed.valid
    THEN [ok |-> TRUE,
          val |-> Quantize(IF is_negative THEN DecimalNeg(parsed) ELSE parsed),
          issues |-> <<>>]
    ELSE [ok |-> FALSE, val |-> Cents(0),
          issues |-> << Issue(row_num, column_name, "warning",
                              <<"Invalid monetary value: '">> \o value \o <<"'">>,
                              Str(value)) >>]

\* the try block of _parse_monetary_value
MonetaryResult(parsed, is_negative, value, column_name, row_num) ==
    IF parsed.valid
    THEN [ok |-> TRUE,
          val |-> Quantize(IF is_negative THEN DecimalNeg(parsed) ELSE parsed),
          issues |-> <<>>]
    ELSE [ok |-> FALSE, val |-> Cents(0),
          issues |-> << Issue(row_num, column_name, "error",
                              <<"Invalid monetary value: '">> \o value \o <<"'">>,
                              Str(value)) >>]

ParseMonetaryText(t, value, column_name, row_num) ==
    MonetaryResult(DecimalCtor(t.value_str), t.is_negative, value, column_name, row_num)

\* _parse_monetary_value without the test for a missing or blank cell
_parse_monetary_value_NoEmptyTest(value, column_name, row_num) ==
    ParseMonetaryText(MonetaryText(Strip(Str(value))), value, column_name, row_num)

\* _parse_monetary_value: ok = FALSE stands for None
_parse_monetary_value(value, column_name, row_num) ==
    IF IsNa(value) \/ Strip(Str(value)) = <<>>
    THEN [ok |-> TRUE, val |-> Cents(0), issues |-> <<>>]
    ELSE ParseMonetaryText(MonetaryText(Strip(Str(value))), value, column_name, row_num)

BothNonZeroIssue(debit_val, credit_val, row_num) ==
    Issue(row_num, "None", "warning",
          <<"Both debit (">> \o DecToText(debit_val) \o <<") and credit (">>
              \o DecToText(credit_val) \o <<") are non-zero">>,
          NoneText)

ZeroAmountIssue(row_num) ==
    Issue(row_num, "None", "info", <<"Transaction amount is $0.00">>, NoneText)

\* AmountOf with the operands of the subtraction exchanged
AmountOf_DebitMinusCredit(dv, cv, row_num) ==
    IF ~dv.ok \/ ~cv.ok
    THEN [ok |-> FALSE, amount |-> Cents(0), issues |-> dv.issues \o cv.issues]
    ELSE [ok |-> TRUE, amount |-> DecSub(dv.val, cv.val),
          issues |-> dv.issues \o cv.issues
                     \o (IF DecNonZero(dv.val) /\ DecNonZero(cv.val)
                         THEN << BothNonZeroIssue(dv.val, cv.val, row_num) >>
                         ELSE <<>>)
                     \o (IF DecIsZero(DecSub(dv.val, cv.val))
                         THEN << ZeroAmountIssue(row_num) >>
                         ELSE <<>>)]

\* AmountOf warning when either of debit and credit is non-zero
AmountOf_WarnsWhenEitherNonZero(dv, cv, row_num) ==
    IF ~dv.ok \/ ~cv.ok
    THEN [ok |-> FALSE, amount |-> Cents(0), issues |-> dv.issues \o cv.issues]
    ELSE [ok |-> TRUE, amount |-> DecSub(cv.val, dv.val),
          issues |-> dv.issues \o cv.issues
                     \o (IF DecNonZero(dv.val) \/ DecNonZero(cv.val)
                         THEN << BothNonZeroIssue(dv.val, cv.val, row_num) >>
                         ELSE <<>>)
                     \o (IF DecIsZero(DecSub(cv.val, dv.val))
                         THEN << ZeroAmountIssue(row_num) >>
                         ELSE <<>>)]

\* _calculate_amount once both cells are parsed (dv, cv)
AmountOf(dv, cv, row_num) ==
    IF ~dv.ok \/ ~cv.ok
    THEN [ok |-> FALSE, amount |-> Cents(0), issues |-> dv.issues \o cv.issues]
    ELSE [ok |-> TRUE, amount |-> DecSub(cv.val, dv.val),
          issues |-> dv.issues \o cv.issues
                     \o (IF DecNonZero(dv.val) /\ DecNonZero(cv.val)
                         THEN << BothNonZeroIssue(dv.val, cv.val, row_num) >>
                         ELSE <<>>)
                     \o (IF DecIsZero(DecSub(cv.val, dv.val))
                         THEN << ZeroAmountIssue(row_num) >>
                         ELSE <<>>)]

\* _calculate_amount returning None as soon as the debit cell is invalid
_calculate_amount_StopsAtDebit(debit, credit, row_num) ==
    IF _parse_monetary_value(debit, "Debit", row_num).ok
    THEN AmountOf(_parse_monetary_value(debit, "Debit", row_num),
                  _parse_monetary_value(credit, "Credit", row_num), row_num)
    ELSE [ok |-> FALSE, amount |-> Cents(0),
          issues |-> _parse_monetary_value(debit, "Debit", row_num).issues]

\* _calculate_amount: ok = FALSE stands for None
_calculate_amount(debit, credit, row_num) ==
    AmountOf(_parse_monetary_value(debit, "Debit", row_num),
             _parse_monetary_value(credit, "Credit", row_num), row_num)

(***************************************************************************)
(* _process_row                                                            *)
(***************************************************************************)

NoTransaction ==
    [account_id |-> 0, date |-> NoDate, description |-> <<>>, amount |-> Cents(0),
     category |-> "Uncategorized", is_verified |-> FALSE, import_batch_id |-> 0]

\* RowOf filling account_id with the batch id
RowOf_AccountIsBatch(dt, desc, amt, account_id, batch) ==
    IF dt.status = "raise"
    THEN [status |-> "raise", transaction |-> NoTransaction, issues |-> dt.issues]
    ELSE IF dt.status = "none"
    THEN [status |-> "skip", transaction |-> NoTransaction, issues |-> dt.issues]
    ELSE IF ~amt.ok
    THEN [status |-> "skip", transaction |-> NoTransaction,
          issues |-> dt.issues \o desc.issues \o amt.issues]
    ELSE [status |-> "ok",
          transaction |->
              [account_id |-> batch, date |-> dt.date,
               description |-> desc.description, amount |-> amt.amount,
               category |-> "Uncategorized", is_verified |-> FALSE,
               import_batch_id |-> batch],
          issues |-> dt.issues \o desc.issues \o amt.issues]

\* _process_row once the three parsers have answered (dt, desc, amt): the
\* description and the amount are looked at only after a date was found
RowOf(dt, desc, amt, account_id, batch) ==
    IF dt.status = "raise"
    THEN [status |-> "raise", transaction |-> NoTransaction, issues |-> dt.issues]
    ELSE IF dt.status = "none"
    THEN [status |-> "skip", transaction |-> NoTransaction, issues |-> dt.issues]
    ELSE IF ~amt.ok
    THEN [status |-> "skip", transaction |-> NoTransaction,
          issues |-> dt.issues \o desc.issues \o amt.issues]
    ELSE [status |-> "ok",
          transaction |->
              [account_id |-> account_id, date |-> dt.date,
               description |-> desc.description, amount |-> amt.amount,
               category |-> "Uncategorized", is_verified |-> FALSE,
               import_batch_id |-> batch],
          issues |-> dt.issues \o desc.issues \o amt.issues]

\* _process_row reading the credit from the last column of the row
_process_row_CreditFromLastColumn(row, row_num, account_id, batch) ==
    RowOf(_parse_date(row[COL_DATE + 1], row_num),
          _parse_description(row[COL_DESCRIPTION + 1], row_num),
          _calculate_amount(row[COL_DEBIT + 1], row[Len(row)], row_num),
          account_id, batch)

\* status "ok" (a transaction dict), "skip" (None) or "raise" (an exception
\* that is not a CSVValidationError leaves the call)
_process_row(row, row_num, account_id, batch) ==
    RowOf(_parse_date(row[COL_DATE + 1], row_num),
          _parse_description(row[COL_DESCRIPTION + 1], row_num),
          _calculate_amount(row[COL_DEBIT + 1], row[COL_CREDIT + 1], row_num),
          account_id, batch)

\* str(e) of the unexpected exception
UnexpectedMessage == <<"unexpected error">>

(***************************************************************************)
(* _generate_summary                                                       *)
(***************************************************************************)

\* Python's sum() of Decimals starts from the int 0: with no term the
\* result is that int, whose str is "0".
PyInt0 == [int |-> TRUE, c |-> 0]

RECURSIVE SumCents(_)
SumCents(cs) == IF cs = <<>> THEN 0 ELSE Head(cs) + SumCents(Tail(cs))

PySum(cs) == IF cs = <<>> THEN PyInt0 ELSE [int |-> FALSE, c |-> SumCents(cs)]

PyAdd(a, b) == [int |-> a.int /\ b.int, c |-> a.c + b.c]

\* PyAbs leaving the sign as it is
PyAbs_Identity(a) == a

PyAbs(a) == [a EXCEPT !.c = IF a.c < 0 THEN -a.c ELSE a.c]

PyNumText(a) == IF a.int THEN NatToText(a.c) ELSE DecToText(Cents(a.c))

DateLeq(a, b) ==
    \/ a.y < b.y
    \/ a.y = b.y /\ a.m < b.m
    \/ a.y = b.y /\ a.m = b.m /\ a.d <= b.d

Pad(n, width) ==
    LET t == NatToText(n)
    IN  [i \in 1..(width - Len(t)) |-> "0"] \o t

\* date.isoformat()
IsoFormat(dt) == Pad(dt.y, 4) \o <<"-">> \o Pad(dt.m, 2) \o <<"-">> \o Pad(dt.d, 2)

\* comparing a Decimal NaN with 0 raises InvalidOperation
SummaryRaises(transactions) ==
    \E i \in 1..Len(transactions) : transactions[i].amount.nan

\* SummaryOf with the two ends of the date range exchanged
SummaryOf_EndsExchanged(income, expenses, dates, count) ==
    [total_income |-> PyNumText(income),
     total_expenses |-> PyNumText(PyAbs(expenses)),
     net_amount |-> PyNumText(PyAdd(income, expenses)),
     date_range |->
         << [start |-> IsoFormat(CHOOSE x \in dates : \A y \in dates : DateLeq(y, x)),
             end   |-> IsoFormat(CHOOSE x \in dates : \A y \in dates : DateLeq(x, y))] >>,
     transaction_count |-> count]

SummaryOf(income, expenses, dates, count) ==
    [total_income |-> PyNumText(income),
     total_expenses |-> PyNumText(PyAbs(expenses)),
     net_amount |-> PyNumText(PyAdd(income, expenses)),
     date_range |->
         << [start |-> IsoFormat(CHOOSE x \in dates : \A y \in dates : DateLeq(x, y)),
             end   |-> IsoFormat(CHOOSE x \in dates : \A y \in dates : DateLeq(y, x))] >>,
     transaction_count |-> count]

AmountCents(transactions) == [i \in 1..Len(transactions) |-> transactions[i].amount.c]

_generate_summary(transactions) ==
    IF transactions = <<>>
    THEN [total_income |-> <<"0", ".", "0", "0">>,
          total_expenses |-> <<"0", ".", "0", "0">>,
          net_amount |-> <<"0", ".", "0", "0">>,
          date_range |-> <<>>,
          transaction_count |-> 0]
    ELSE SummaryOf(PySum(SelectSeq(AmountCents(transactions), LAMBDA a : a > 0)),
                   PySum(SelectSeq(AmountCents(transactions), LAMBDA a : a < 0)),
                   {transactions[i].date : i \in 1..Len(transactions)},
                   Len(transactions))

(***************************************************************************)
(* Inputs                                                                  *)
(***************************************************************************)

\* rows per table in the multi-row inputs
MaxRows == 2

\* process_csv calls made on one run of the model
MaxCalls == 2

Procs == {"p1", "p2"}

AccountIds == {1}

T_iso      == <<"2", "0", "2", "4", "-", "0", "1", "-", "1", "5">>
T_iso_next == <<"2", "0", "2", "4", "-", "0", "1", "-", "1", "6">>
T_iso_prev == <<"2", "0", "2", "3", "-", "1", "2", "-", "3", "1">>
T_feb30    == <<"2", "0", "2", "4", "-", "0", "2", "-", "3", "0">>
T_us       == <<"0", "1", "/", "1", "5", "/", "2", "0", "2", "4">>
T_eu       == <<"1", "5", "/", "0", "1", "/", "2", "0", "2", "4">>
T_ambig    == <<"0", "3", "/", "0", "4", "/", "2", "0", "2", "4">>
T_us_dash  == <<"0", "1", "-", "1", "5", "-", "2", "0", "2", "4">>
T_ymd_sl   == <<"2", "0", "2", "4", "/", "0", "1", "/", "1", "5">>
T_eu_dash  == <<"1", "5", "-", "0", "1", "-", "2", "0", "2", "4">>
T_notdate  == <<"n", "o", "t", "-", "a", "-", "d", "a", "t", "e">>
T_blank    == <<" ">>
T_poison   == <<PoisonChar>>

DateCells ==
    { PdNaN, T_blank, T_iso, T_iso_prev, T_feb30, T_us, T_eu, T_ambig, T_us_dash,
      T_ymd_sl, T_eu_dash, T_notdate, T_poison }

\* MAX_DESCRIPTION_LENGTH characters, and descriptions around that length
T_full == [i \in 1..MAX_DESCRIPTION_LENGTH |-> "A"]
T_long == <<" ">> \o T_full \o [i \in 1..100 |-> "Z"] \o <<" ">>
T_over == T_full \o <<"Z">>
T_edge == T_full \o <<" ">>

DescCells == { PdNaN, T_blank, <<"A">>, <<" ", "B", " ">>, T_long, T_over, T_edge }

M_zero     == <<"0", ".", "0", "0">>
M_fifty    == <<"5", "0", ".", "0", "0">>
M_thirty   == <<"3", "0", ".", "0", "0">>
M_paren    == <<"(", "5", "0", ".", "0", "0", ")">>
M_parenneg == <<"(", "-", "5", "0", ".", "0", "0", ")">>
M_minus    == <<"-", "5">>
M_currency == <<"$", "1", ",", "0", "0", "0", ".", "0", "0">>
M_014      == <<"0", ".", "0", "1", "4">>
M_006      == <<"0", ".", "0", "0", "6">>
M_005      == <<"0", ".", "0", "0", "5">>
M_015      == <<"0", ".", "0", "1", "5">>
M_junk     == <<"a", "b", "c">>
M_junk2    == <<"x", "y">>
M_nan      == <<"$", "N", "a", "N">>

MoneyCells ==
    { PdNaN, T_blank, M_zero, M_fifty, M_thirty, M_paren, M_parenneg, M_minus,
      M_currency, M_014, M_006, M_005, M_015, M_junk, M_junk2, M_nan }

\* rows of the multi-row tables
SmallRows ==
    { <<T_iso, <<"A">>, M_fifty, M_zero>>,
      <<T_iso_next, <<"B">>, PdNaN, M_thirty>>,
      <<T_us, PdNaN, M_fifty, M_fifty>>,
      <<T_notdate, <<"A">>, M_fifty, M_zero>>,
      <<T_iso, <<"A">>, M_junk, M_junk2>>,
      <<T_iso, <<"A">>, M_nan, M_zero>>,
      <<T_poison, <<"A">>, M_fifty, M_zero>> }

\* rows of the one-row tables: every pair of monetary cells, and every
\* pair of date and description cells
RichRows ==
    {<<T_iso, <<"A">>, debit, credit>> : debit \in MoneyCells, credit \in MoneyCells}
    \cup {<<dt, ds, M_fifty, PdNaN>> : dt \in DateCells, ds \in DescCells}
    \cup {<<T_notdate, PdNaN, M_junk, M_junk2>>}

\* cells of a fifth column
ExtraCells == { PdNaN, M_thirty }

Table(ncols, rows) == [ncols |-> ncols, rows |-> rows]

\* a four-cell row cut to three columns or extended to five
Resize(row, ncols, extra) ==
    IF ncols < Len(row) THEN SubSeq(row, 1, ncols)
    ELSE IF ncols > Len(row) THEN Append(row, extra)
    ELSE row

RowSeqs == UNION {[1..k -> SmallRows] : k \in 0..MaxRows}

\* rows of the three-column and of the five-column tables
ResizedRows ==
    { <<T_iso_next, <<"B">>, PdNaN, M_thirty>>,
      <<T_us, PdNaN, M_fifty, M_fifty>>,
      <<T_notdate, <<"A">>, M_fifty, M_zero>>,
      <<T_iso, <<"A">>, M_junk, M_junk2>> }

ResizedRowSeqs == UNION {[1..k -> ResizedRows] : k \in 0..MaxRows}

SmallTables ==
    {Table(REQUIRED_COLUMNS, rows) : rows \in RowSeqs}
    \cup {Table(REQUIRED_COLUMNS - 1,
                [i \in 1..Len(rows) |-> Resize(rows[i], REQUIRED_COLUMNS - 1, PdNaN)]) :
            rows \in ResizedRowSeqs}
    \cup {Table(REQUIRED_COLUMNS + 1,
                [i \in 1..Len(rows) |-> Resize(rows[i], REQUIRED_COLUMNS + 1, e)]) :
            rows \in ResizedRowSeqs, e \in ExtraCells}
    \cup {Table(0, <<>>)}

RichTables == {Table(REQUIRED_COLUMNS, <<row>>) : row \in RichRows}

\* file_content: zero bytes, bytes that do not decode in the encoding given,
\* or text.  For text, table is the DataFrame pandas builds from it and
\* bad_lines tells whether some line has more fields than the first one
\* (skipped with a warning, or a ParserError under on_bad_lines="error").
File(bytes, bad_lines, table) == [bytes |-> bytes, bad_lines |-> bad_lines, table |-> table]

NoTable == Table(0, <<>>)

Files ==
    {File("zero", FALSE, NoTable), File("undecodable", FALSE, NoTable)}
    \cup {File("text", FALSE, t) : t \in SmallTables \cup RichTables}
    \cup {File("text", TRUE, Table(REQUIRED_COLUMNS, <<row>>)) : row \in SmallRows}

(***************************************************************************)
(* State                                                                   *)
(***************************************************************************)

VARIABLES
    pc,            \* per processor: where its process_csv call stands
    strict_mode,   \* CSVProcessor.strict_mode
    issues,        \* CSVProcessor.issues
    batch_id,      \* CSVProcessor.batch_id
    file,          \* process_csv: file_content
    account,       \* process_csv: account_id
    df,            \* process_csv: df
    idx,           \* _transform_data: rows iterated so far
    transactions,  \* _transform_data: transactions
    skipped,       \* _transform_data: skipped
    summary,       \* process_csv: summary
    result,        \* the ProcessingResult returned (a sequence of 0 or 1)
    error,         \* the exception that left process_csv (a sequence of 0 or 1)
    uuid_count,    \* uuid4() calls made so far
    batch_log,     \* the batch_id of every process_csv call, in call order
    issues_ref,    \* per processor: the list object self.issues is bound to
    list_count,    \* list objects made for self.issues so far
    kept,          \* the results a caller still holds, as they read now
    stored,        \* the rows of the transactions table, in insertion order
    response       \* per request: the status the endpoint answered with

vars ==
    << pc, strict_mode, issues, batch_id, file, account, df, idx, transactions,
       skipped, summary, result, error, uuid_count, batch_log, issues_ref,
       list_count, kept, stored, response >>

NoSummary ==
    [total_income |-> <<>>, total_expenses |-> <<>>, net_amount |-> <<>>,
     date_range |-> <<>>, transaction_count |-> 0]

Exception(kind, message) == [kind |-> kind, message |-> message]

\* uuid4(): a value no earlier call has returned
uuid4 == uuid_count + 1

\* []: a list object no name was bound to before
NewList == list_count + 1

\* self.issues.append(issue) changes the list object in place: whoever holds
\* a result whose issues are that same object reads the new content
InPlace(p) ==
    [i \in DOMAIN kept |->
        IF kept[i].issues_ref = issues_ref[p]
        THEN [kept[i] EXCEPT !.result.issues = issues'[p]]
        ELSE kept[i]]

\* the requests of the upload router: one upload per processor, and the
\* deletion of a batch
Requests == Procs \cup {"delete"}

Init ==
    /\ pc = [p \in Procs |-> "none"]
    /\ strict_mode = [p \in Procs |-> FALSE]
    /\ issues = [p \in Procs |-> <<>>]
    /\ batch_id = [p \in Procs |-> 0]
    /\ file = [p \in Procs |-> File("zero", FALSE, NoTable)]
    /\ account = [p \in Procs |-> 0]
    /\ df = [p \in Procs |-> NoTable]
    /\ idx = [p \in Procs |-> 0]
    /\ transactions = [p \in Procs |-> <<>>]
    /\ skipped = [p \in Procs |-> 0]
    /\ summary = [p \in Procs |-> NoSummary]
    /\ result = [p \in Procs |-> <<>>]
    /\ error = [p \in Procs |-> <<>>]
    /\ uuid_count = 0
    /\ batch_log = <<>>
    /\ issues_ref = [p \in Procs |-> 0]
    /\ list_count = 0
    /\ kept = <<>>
    /\ stored = <<>>
    /\ response = [r \in Requests |-> "none"]

(***************************************************************************)
(* Actions                                                                 *)
(***************************************************************************)

\* CSVProcessor.__init__
Construct(p, strict) ==
    /\ pc[p] = "none"
    /\ pc' = [pc EXCEPT ![p] = "idle"]
    /\ strict_mode' = [strict_mode EXCEPT ![p] = strict]
    /\ issues' = [issues EXCEPT ![p] = <<>>]
    /\ batch_id' = [batch_id EXCEPT ![p] = uuid4]
    /\ uuid_count' = uuid_count + 1
    /\ UNCHANGED << file, account, df, idx, transactions, skipped, summary, result,
                    error, batch_log >>
    /\ issues_ref' = [issues_ref EXCEPT ![p] = NewList]
    /\ list_count' = list_count + 1
    /\ UNCHANGED << kept, stored, response >>

\* Call keeping the batch id the processor already has
Call_KeepBatchId(p, file_content, account_id) ==
    /\ pc[p] \in {"idle", "done", "raised"}
    /\ Len(batch_log) < MaxCalls
    /\ pc' = [pc EXCEPT ![p] = "read"]
    /\ issues' = [issues EXCEPT ![p] = <<>>]
    /\ batch_log' = Append(batch_log, batch_id[p])
    /\ file' = [file EXCEPT ![p] = file_content]
    /\ account' = [account EXCEPT ![p] = account_id]
    /\ df' = [df EXCEPT ![p] = NoTable]
    /\ idx' = [idx EXCEPT ![p] = 0]
    /\ transactions' = [transactions EXCEPT ![p] = <<>>]
    /\ skipped' = [skipped EXCEPT ![p] = 0]
    /\ summary' = [summary EXCEPT ![p] = NoSummary]
    /\ result' = [result EXCEPT ![p] = <<>>]
    /\ error' = [error EXCEPT ![p] = <<>>]
    /\ UNCHANGED << strict_mode, batch_id, uuid_count >>
    /\ issues_ref' = [issues_ref EXCEPT ![p] = NewList]
    /\ list_count' = list_count + 1
    /\ UNCHANGED << kept, stored, response >>

\* Call emptying one issue list that all processors share
Call_SharedIssueList(p, file_content, account_id) ==
    /\ pc[p] \in {"idle", "done", "raised"}
    /\ Len(batch_log) < MaxCalls
    /\ pc' = [pc EXCEPT ![p] = "read"]
    /\ issues' = [q \in Procs |-> <<>>]
    /\ batch_id' = [batch_id EXCEPT ![p] = uuid4]
    /\ uuid_count' = uuid_count + 1
    /\ batch_log' = Append(batch_log, batch_id'[p])
    /\ file' = [file EXCEPT ![p] = file_content]
    /\ account' = [account EXCEPT ![p] = account_id]
    /\ df' = [df EXCEPT ![p] = NoTable]
    /\ idx' = [idx EXCEPT ![p] = 0]
    /\ transactions' = [transactions EXCEPT ![p] = <<>>]
    /\ skipped' = [skipped EXCEPT ![p] = 0]
    /\ summary' = [summary EXCEPT ![p] = NoSummary]
    /\ result' = [result EXCEPT ![p] = <<>>]
    /\ error' = [error EXCEPT ![p] = <<>>]
    /\ UNCHANGED strict_mode
    /\ issues_ref' = [q \in Procs |-> NewList]
    /\ list_count' = list_count + 1
    /\ UNCHANGED << kept, stored, response >>

\* Call emptying the issue list it has (self.issues.clear()) instead of
\* binding self.issues to a new list
Call_ClearsIssuesInPlace(p, file_content, account_id) ==
    /\ pc[p] \in {"idle", "done", "raised"}
    /\ Len(batch_log) < MaxCalls
    /\ pc' = [pc EXCEPT ![p] = "read"]
    /\ issues' = [issues EXCEPT ![p] = <<>>]
    /\ batch_id' = [batch_id EXCEPT ![p] = uuid4]
    /\ uuid_count' = uuid_count + 1
    /\ batch_log' = Append(batch_log, batch_id'[p])
    /\ file' = [file EXCEPT ![p] = file_content]
    /\ account' = [account EXCEPT ![p] = account_id]
    /\ df' = [df EXCEPT ![p] = NoTable]
    /\ idx' = [idx EXCEPT ![p] = 0]
    /\ transactions' = [transactions EXCEPT ![p] = <<>>]
    /\ skipped' = [skipped EXCEPT ![p] = 0]
    /\ summary' = [summary EXCEPT ![p] = NoSummary]
    /\ result' = [result EXCEPT ![p] = <<>>]
    /\ error' = [error EXCEPT ![p] = <<>>]
    /\ UNCHANGED strict_mode
    /\ kept' = InPlace(p)
    /\ UNCHANGED << issues_ref, list_count, stored, response >>

\* process_csv up to the try: the issue list and the batch id are renewed
Call(p, file_content, account_id) ==
    /\ pc[p] \in {"idle", "done", "raised"}
    /\ Len(batch_log) < MaxCalls
    /\ pc' = [pc EXCEPT ![p] = "read"]
    /\ issues' = [issues EXCEPT ![p] = <<>>]
    /\ batch_id' = [batch_id EXCEPT ![p] = uuid4]
    /\ uuid_count' = uuid_count + 1
    /\ batch_log' = Append(batch_log, batch_id'[p])
    /\ file' = [file EXCEPT ![p] = file_content]
    /\ account' = [account EXCEPT ![p] = account_id]
    /\ df' = [df EXCEPT ![p] = NoTable]
    /\ idx' = [idx EXCEPT ![p] = 0]
    /\ transactions' = [transactions EXCEPT ![p] = <<>>]
    /\ skipped' = [skipped EXCEPT ![p] = 0]
    /\ summary' = [summary EXCEPT ![p] = NoSummary]
    /\ result' = [result EXCEPT ![p] = <<>>]
    /\ error' = [error EXCEPT ![p] = <<>>]
    /\ UNCHANGED strict_mode
    /\ issues_ref' = [issues_ref EXCEPT ![p] = NewList]
    /\ list_count' = list_count + 1
    /\ UNCHANGED << kept, stored, response >>

\* an exception leaves process_csv
Raise(p, kind, message) ==
    /\ pc' = [pc EXCEPT ![p] = "raised"]
    /\ error' = [error EXCEPT ![p] = << Exception(kind, message) >>]

\* what pd.read_csv does with the file: "EmptyDataError", "UnicodeDecodeError",
\* "ParserError" or "ok"
ReadOutcome(f, strict) ==
    IF f.bytes = "zero" THEN "EmptyDataError"
    ELSE IF f.bytes = "undecodable" THEN "UnicodeDecodeError"
    ELSE IF f.bad_lines /\ strict THEN "ParserError"
    ELSE "ok"

\* the except clauses of process_csv
ParsingErrorMessage(outcome) ==
    IF outcome = "EmptyDataError" THEN <<"CSV file is empty">>
    ELSE IF outcome = "ParserError" THEN <<"Failed to parse CSV: ">>
    ELSE <<"Failed to decode file with encoding">>

\* ReadCsv without the except clause for UnicodeDecodeError
ReadCsv_NoDecodeClause(p) ==
    /\ pc[p] = "read"
    /\ LET outcome == ReadOutcome(file[p], strict_mode[p])
       IN  \/ /\ outcome = "ok"
              /\ df' = [df EXCEPT ![p] = file[p].table]
              /\ pc' = [pc EXCEPT ![p] = "validate"]
              /\ UNCHANGED error
           \/ /\ outcome \in {"EmptyDataError", "ParserError"}
              /\ Raise(p, "CSVParsingError", ParsingErrorMessage(outcome))
              /\ UNCHANGED df
           \/ /\ outcome = "UnicodeDecodeError"
              /\ Raise(p, "UnicodeDecodeError", <<"codec can't decode">>)
              /\ UNCHANGED df
    /\ UNCHANGED << strict_mode, issues, batch_id, file, account, idx, transactions,
                    skipped, summary, result, uuid_count, batch_log >>
    /\ UNCHANGED << issues_ref, list_count, kept, stored, response >>

\* step 1: _read_csv and the except clauses of process_csv
ReadCsv(p) ==
    /\ pc[p] = "read"
    /\ LET outcome == ReadOutcome(file[p], strict_mode[p])
       IN  \/ /\ outcome = "ok"
              /\ df' = [df EXCEPT ![p] = file[p].table]
              /\ pc' = [pc EXCEPT ![p] = "validate"]
              /\ UNCHANGED error
           \/ /\ outcome # "ok"
              /\ Raise(p, "CSVParsingError", ParsingErrorMessage(outcome))
              /\ UNCHANGED df
    /\ UNCHANGED << strict_mode, issues, batch_id, file, account, idx, transactions,
                    skipped, summary, result, uuid_count, batch_log >>
    /\ UNCHANGED << issues_ref, list_count, kept, stored, response >>

ExtraColumnsIssue(ncols) ==
    Issue(0, "None", "warning",
          <<"CSV has ">> \o NatToText(ncols) \o <<" columns, expected ">>
              \o NatToText(REQUIRED_COLUMNS) \o <<". Extra columns will be ignored.">>,
          NoneText)

\* ValidateStructure testing df.empty before the column count
ValidateStructure_EmptyFirst(p) ==
    /\ pc[p] = "validate"
    /\ \/ /\ df[p].rows = <<>>
          /\ Raise(p, "CSVValidationError", <<"CSV file contains no data rows">>)
          /\ UNCHANGED issues
       \/ /\ df[p].rows # <<>>
          /\ df[p].ncols < REQUIRED_COLUMNS
          /\ Raise(p, "CSVColumnError",
                   <<"CSV must have at least ">> \o NatToText(REQUIRED_COLUMNS)
                       \o <<" columns, found ">> \o NatToText(df[p].ncols))
          /\ UNCHANGED issues
       \/ /\ df[p].rows # <<>>
          /\ df[p].ncols >= REQUIRED_COLUMNS
          /\ issues' = [issues EXCEPT ![p] =
                 IF df[p].ncols > REQUIRED_COLUMNS
                 THEN Append(@, ExtraColumnsIssue(df[p].ncols))
                 ELSE @]
          /\ pc' = [pc EXCEPT ![p] = "transform"]
          /\ UNCHANGED error
    /\ UNCHANGED << strict_mode, batch_id, file, account, df, idx, transactions,
                    skipped, summary, result, uuid_count, batch_log >>
    /\ kept' = InPlace(p)
    /\ UNCHANGED << issues_ref, list_count, stored, response >>

\* ValidateStructure without the df.empty test: a table without rows goes
\* on to the summary
ValidateStructure_NoEmptyTest(p) ==
    /\ pc[p] = "validate"
    /\ \/ /\ df[p].ncols < REQUIRED_COLUMNS
          /\ Raise(p, "CSVColumnError",
                   <<"CSV must have at least ">> \o NatToText(REQUIRED_COLUMNS)
                       \o <<" columns, found ">> \o NatToText(df[p].ncols))
          /\ UNCHANGED issues
       \/ /\ df[p].ncols >= REQUIRED_COLUMNS
          /\ issues' = [issues EXCEPT ![p] =
                 IF df[p].ncols > REQUIRED_COLUMNS
                 THEN Append(@, ExtraColumnsIssue(df[p].ncols))
                 ELSE @]
          /\ pc' = [pc EXCEPT ![p] = IF df[p].rows = <<>> THEN "summary" ELSE "transform"]
          /\ UNCHANGED error
    /\ UNCHANGED << strict_mode, batch_id, file, account, df, idx, transactions,
                    skipped, summary, result, uuid_count, batch_log >>
    /\ kept' = InPlace(p)
    /\ UNCHANGED << issues_ref, list_count, stored, response >>

\* step 2: _validate_structure
ValidateStructure(p) ==
    /\ pc[p] = "validate"
    /\ \/ /\ df[p].ncols < REQUIRED_COLUMNS
          /\ Raise(p, "CSVColumnError",
                   <<"CSV must have at least ">> \o NatToText(REQUIRED_COLUMNS)
                       \o <<" columns, found ">> \o NatToText(df[p].ncols))
          /\ UNCHANGED issues
       \/ /\ df[p].ncols >= REQUIRED_COLUMNS
          /\ issues' = [issues EXCEPT ![p] =
                 IF df[p].ncols > REQUIRED_COLUMNS
                 THEN Append(@, ExtraColumnsIssue(df[p].ncols))
                 ELSE @]
          /\ IF df[p].rows = <<>>
             THEN Raise(p, "CSVValidationError", <<"CSV file contains no data rows">>)
             ELSE pc' = [pc EXCEPT ![p] = "transform"] /\ UNCHANGED error
    /\ UNCHANGED << strict_mode, batch_id, file, account, df, idx, transactions,
                    skipped, summary, result, uuid_count, batch_log >>
    /\ kept' = InPlace(p)
    /\ UNCHANGED << issues_ref, list_count, stored, response >>

\* the Error issues recorded for row_num, in order
error_issues(all_issues, row_num) ==
    SelectSeq(all_issues, LAMBDA i : i.row_number = row_num /\ i.severity = "error")

\* RowMessage naming the 0-based index of the row
RowMessage_ZeroBased(row_num, message) ==
    <<"Row ">> \o NatToText(row_num - 1) \o <<": ">> \o message

RowMessage(row_num, message) == <<"Row ">> \o NatToText(row_num) \o <<": ">> \o message

\* AfterRow leaving the loop after its first row
AfterRow_StopsAfterFirstRow(p) == "summary"

\* where the row loop goes after a row that did not abort
AfterRow(p) == IF idx[p] + 1 = Len(df[p].rows) THEN "summary" ELSE "transform"

\* RowStep without the strict-mode check of a skipped row
RowStep_NoStrictCheck(p, row_num, r, recorded) ==
    \/ /\ r.status = "ok"
       /\ issues' = [issues EXCEPT ![p] = recorded]
       /\ transactions' = [transactions EXCEPT ![p] = Append(@, r.transaction)]
       /\ pc' = [pc EXCEPT ![p] = AfterRow(p)]
       /\ UNCHANGED << skipped, error >>
    \/ /\ r.status = "skip"
       /\ issues' = [issues EXCEPT ![p] = recorded]
       /\ skipped' = [skipped EXCEPT ![p] = @ + 1]
       /\ pc' = [pc EXCEPT ![p] = AfterRow(p)]
       /\ UNCHANGED << transactions, error >>
    \/ /\ r.status = "raise"
       /\ strict_mode[p]
       /\ issues' = [issues EXCEPT ![p] = recorded]
       /\ Raise(p, "CSVValidationError", RowMessage(row_num, UnexpectedMessage))
       /\ UNCHANGED << transactions, skipped >>
    \/ /\ r.status = "raise"
       /\ ~strict_mode[p]
       /\ issues' = [issues EXCEPT ![p] =
              Append(recorded, Issue(row_num, "None", "error",
                                     UnexpectedMessage, NoneText))]
       /\ skipped' = [skipped EXCEPT ![p] = @ + 1]
       /\ pc' = [pc EXCEPT ![p] = AfterRow(p)]
       /\ UNCHANGED << transactions, error >>

\* RowStep not counting as skipped a row that raised
RowStep_RaisedNotCounted(p, row_num, r, recorded) ==
    \/ /\ r.status = "ok"
       /\ issues' = [issues EXCEPT ![p] = recorded]
       /\ transactions' = [transactions EXCEPT ![p] = Append(@, r.transaction)]
       /\ pc' = [pc EXCEPT ![p] = AfterRow(p)]
       /\ UNCHANGED << skipped, error >>
    \/ /\ r.status = "skip"
       /\ issues' = [issues EXCEPT ![p] = recorded]
       /\ skipped' = [skipped EXCEPT ![p] = @ + 1]
       /\ IF strict_mode[p] /\ error_issues(recorded, row_num) # <<>>
          THEN Raise(p, "CSVValidationError",
                     RowMessage(row_num, error_issues(recorded, row_num)[1].message))
          ELSE pc' = [pc EXCEPT ![p] = AfterRow(p)] /\ UNCHANGED error
       /\ UNCHANGED transactions
    \/ /\ r.status = "raise"
       /\ strict_mode[p]
       /\ issues' = [issues EXCEPT ![p] = recorded]
       /\ Raise(p, "CSVValidationError", RowMessage(row_num, UnexpectedMessage))
       /\ UNCHANGED << transactions, skipped >>
    \/ /\ r.status = "raise"
       /\ ~strict_mode[p]
       /\ issues' = [issues EXCEPT ![p] =
              Append(recorded, Issue(row_num, "None", "error",
                                     UnexpectedMessage, NoneText))]
       /\ pc' = [pc EXCEPT ![p] = AfterRow(p)]
       /\ UNCHANGED << transactions, skipped, error >>

\* the body of the loop for row row_num: r is what _process_row did and
\* recorded the issue list it left
RowStep(p, row_num, r, recorded) ==
    \/ /\ r.status = "ok"
       /\ issues' = [issues EXCEPT ![p] = recorded]
       /\ transactions' = [transactions EXCEPT ![p] = Append(@, r.transaction)]
       /\ pc' = [pc EXCEPT ![p] = AfterRow(p)]
       /\ UNCHANGED << skipped, error >>
    \/ /\ r.status = "skip"
       /\ issues' = [issues EXCEPT ![p] = recorded]
       /\ skipped' = [skipped EXCEPT ![p] = @ + 1]
       /\ IF strict_mode[p] /\ error_issues(recorded, row_num) # <<>>
          THEN Raise(p, "CSVValidationError",
                     RowMessage(row_num, error_issues(recorded, row_num)[1].message))
          ELSE pc' = [pc EXCEPT ![p] = AfterRow(p)] /\ UNCHANGED error
       /\ UNCHANGED transactions
    \/ /\ r.status = "raise"
       /\ strict_mode[p]
       /\ issues' = [issues EXCEPT ![p] = recorded]
       /\ Raise(p, "CSVValidationError", RowMessage(row_num, UnexpectedMessage))
       /\ UNCHANGED << transactions, skipped >>
    \/ /\ r.status = "raise"
       /\ ~strict_mode[p]
       /\ issues' = [issues EXCEPT ![p] =
              Append(recorded, Issue(row_num, "None", "error",
                                     UnexpectedMessage, NoneText))]
       /\ skipped' = [skipped EXCEPT ![p] = @ + 1]
       /\ pc' = [pc EXCEPT ![p] = AfterRow(p)]
       /\ UNCHANGED << transactions, error >>

RowStepOf(p, row_num, r) == RowStep(p, row_num, r, issues[p] \o r.issues)

\* TransformRow numbering the rows as the DataFrame index does, from 0
TransformRow_ZeroBasedRowNumber(p) ==
    /\ pc[p] = "transform"
    /\ idx[p] < Len(df[p].rows)
    /\ \E r \in {_process_row(df[p].rows[idx[p] + 1], idx[p], account[p],
                              batch_id[p])} :
           RowStepOf(p, idx[p], r)
    /\ idx' = [idx EXCEPT ![p] = @ + 1]
    /\ UNCHANGED << strict_mode, batch_id, file, account, df, summary, result,
                    uuid_count, batch_log >>
    /\ kept' = InPlace(p)
    /\ UNCHANGED << issues_ref, list_count, stored, response >>

\* step 3: one iteration of the loop of _transform_data
TransformRow(p) ==
    /\ pc[p] = "transform"
    /\ idx[p] < Len(df[p].rows)
    /\ \E r \in {_process_row(df[p].rows[idx[p] + 1], idx[p] + 1, account[p],
                              batch_id[p])} :
           RowStepOf(p, idx[p] + 1, r)
    /\ idx' = [idx EXCEPT ![p] = @ + 1]
    /\ UNCHANGED << strict_mode, batch_id, file, account, df, summary, result,
                    uuid_count, batch_log >>
    /\ kept' = InPlace(p)
    /\ UNCHANGED << issues_ref, list_count, stored, response >>

\* step 4: _generate_summary; the InvalidOperation of a NaN amount is caught
\* by none of the except clauses of process_csv
GenerateSummary(p) ==
    /\ pc[p] = "summary"
    /\ IF SummaryRaises(transactions[p])
       THEN /\ Raise(p, "InvalidOperation", <<"comparison involving NaN">>)
            /\ UNCHANGED summary
       ELSE /\ summary' = [summary EXCEPT ![p] = _generate_summary(transactions[p])]
            /\ pc' = [pc EXCEPT ![p] = "return"]
            /\ UNCHANGED error
    /\ UNCHANGED << strict_mode, issues, batch_id, file, account, df, idx,
                    transactions, skipped, result, uuid_count, batch_log >>
    /\ UNCHANGED << issues_ref, list_count, kept, stored, response >>

\* ProcessingResult giving the rows of the table as processed_rows
ProcessingResult_ProcessedIsTotal(p) ==
    [success |-> TRUE,
     transactions |-> transactions[p],
     batch_id |-> batch_id[p],
     total_rows |-> Len(df[p].rows),
     processed_rows |-> Len(df[p].rows),
     skipped_rows |-> skipped[p],
     issues |-> issues[p],
     summary |-> summary[p]]

ProcessingResult(p) ==
    [success |-> TRUE,
     transactions |-> transactions[p],
     batch_id |-> batch_id[p],
     total_rows |-> Len(df[p].rows),
     processed_rows |-> Len(transactions[p]),
     skipped_rows |-> skipped[p],
     issues |-> issues[p],
     summary |-> summary[p]]

\* return ProcessingResult(...)
Return(p) ==
    /\ pc[p] = "return"
    /\ result' = [result EXCEPT ![p] = << ProcessingResult(p) >>]
    /\ pc' = [pc EXCEPT ![p] = "done"]
    /\ UNCHANGED << strict_mode, issues, batch_id, file, account, df, idx,
                    transactions, skipped, summary, error, uuid_count, batch_log >>
    /\ UNCHANGED << issues_ref, list_count, kept, stored, response >>

\* one processor, as process_csv_file builds one per call and a caller may
\* keep one for several calls
Next ==
    \/ \E strict \in BOOLEAN : Construct("p1", strict)
    \/ \E f \in Files, a \in AccountIds : Call("p1", f, a)
    \/ ReadCsv("p1")
    \/ ValidateStructure("p1")
    \/ TransformRow("p1")
    \/ GenerateSummary("p1")
    \/ Return("p1")

Spec == Init /\ [][Next]_vars

\* the files of the runs of two processors
PairFiles ==
    { File("zero", FALSE, NoTable),
      File("text", FALSE,
           Table(REQUIRED_COLUMNS, << <<T_iso, <<"A">>, M_fifty, M_zero>>,
                                      <<T_iso_next, <<"B">>, PdNaN, M_thirty>> >>)),
      File("text", FALSE,
           Table(REQUIRED_COLUMNS, << <<T_us, PdNaN, M_fifty, M_fifty>>,
                                      <<T_notdate, <<"A">>, M_fifty, M_zero>> >>)),
      File("text", FALSE,
           Table(REQUIRED_COLUMNS, << <<T_iso, <<"A">>, M_nan, M_zero>> >>)),
      File("text", FALSE,
           Table(REQUIRED_COLUMNS, << <<T_poison, <<"A">>, M_fifty, M_zero>> >>)),
      File("text", FALSE,
           Table(REQUIRED_COLUMNS - 1, << <<T_iso, <<"A">>, M_fifty>> >>)),
      File("text", FALSE,
           Table(REQUIRED_COLUMNS + 1, << <<T_iso, <<"A">>, M_junk, M_junk2, M_thirty>> >>)),
      File("text", TRUE,
           Table(REQUIRED_COLUMNS, << <<T_iso, <<"A">>, M_fifty, M_zero>> >>)) }

\* two callers, each with a processor of its own as process_csv_file
\* builds it, running in any interleaving
PairNext ==
    \E p \in Procs :
        \/ \E strict \in BOOLEAN : Construct(p, strict)
        \/ \E f \in PairFiles, a \in AccountIds : Call(p, f, a)
        \/ ReadCsv(p)
        \/ ValidateStructure(p)
        \/ TransformRow(p)
        \/ GenerateSummary(p)
        \/ Return(p)

SpecPair == Init /\ [][PairNext]_vars

\* the caller of p keeps the result it was returned, next to the file it
\* had passed; the issues of the result are the list object self.issues
\* was bound to at the return
Keep(p) ==
    /\ pc[p] = "done"
    /\ result[p] # <<>>
    /\ \A i \in 1..Len(kept) : kept[i].result.batch_id # result[p][1].batch_id
    /\ kept' = Append(kept, [result |-> result[p][1],
                             issues_ref |-> issues_ref[p],
                             file |-> file[p]])
    /\ UNCHANGED << pc, strict_mode, issues, batch_id, file, account, df, idx,
                    transactions, skipped, summary, result, error, uuid_count,
                    batch_log, issues_ref, list_count, stored, response >>

\* one processor called again and again by a caller that may keep every
\* result
ReuseNext ==
    \/ \E strict \in BOOLEAN : Construct("p1", strict)
    \/ \E f \in PairFiles, a \in AccountIds : Call("p1", f, a)
    \/ ReadCsv("p1")
    \/ ValidateStructure("p1")
    \/ TransformRow("p1")
    \/ GenerateSummary("p1")
    \/ Return("p1")
    \/ Keep("p1")

SpecReuse == Init /\ [][ReuseNext]_vars

(***************************************************************************)
(* The upload router                                                       *)
(***************************************************************************)

\* the files uploaded: two good rows; a good row and one with a bad date;
\* a NaN amount; three columns; no bytes
UploadFiles ==
    { File("text", FALSE,
           Table(REQUIRED_COLUMNS, << <<T_iso, <<"A">>, M_fifty, M_zero>>,
                                      <<T_iso_next, <<"B">>, PdNaN, M_thirty>> >>)),
      File("text", FALSE,
           Table(REQUIRED_COLUMNS, << <<T_us, PdNaN, M_fifty, M_fifty>>,
                                      <<T_notdate, <<"A">>, M_fifty, M_zero>> >>)),
      File("text", FALSE,
           Table(REQUIRED_COLUMNS, << <<T_iso, <<"A">>, M_nan, M_zero>> >>)),
      File("text", FALSE,
           Table(REQUIRED_COLUMNS - 1, << <<T_iso, <<"A">>, M_fifty>> >>)),
      File("zero", FALSE, NoTable) }

\* the account ids a request may name: those of the accounts table and one
\* that is not in it
RequestAccounts == AccountIds \cup {2}

\* Transaction(...) leaving import_batch_id out
Transaction_NoBatchId(trans_data) ==
    [account_id |-> trans_data.account_id,
     date |-> trans_data.date,
     description |-> trans_data.description,
     amount |-> trans_data.amount,
     category |-> trans_data.category,
     is_verified |-> trans_data.is_verified,
     import_batch_id |-> 0]

\* the row upload_csv builds from a draft
Transaction(trans_data) ==
    [account_id |-> trans_data.account_id,
     date |-> trans_data.date,
     description |-> trans_data.description,
     amount |-> trans_data.amount,
     category |-> trans_data.category,
     is_verified |-> trans_data.is_verified,
     import_batch_id |-> trans_data.import_batch_id]

\* upload_csv up to the first step of process_csv_file: the two checks of
\* the request, then a new CSVProcessor whose process_csv is entered
upload_csv(p, file_content, account_id, strict, is_csv_name) ==
    /\ response[p] # "processing"
    /\ Len(batch_log) < MaxCalls
    /\ IF account_id \notin AccountIds
       THEN /\ response' = [response EXCEPT ![p] = "404"]
            /\ UNCHANGED << pc, strict_mode, issues, batch_id, file, account, df, idx,
                            transactions, skipped, summary, result, error, uuid_count,
                            batch_log, issues_ref, list_count >>
       ELSE IF ~is_csv_name
       THEN /\ response' = [response EXCEPT ![p] = "400"]
            /\ UNCHANGED << pc, strict_mode, issues, batch_id, file, account, df, idx,
                            transactions, skipped, summary, result, error, uuid_count,
                            batch_log, issues_ref, list_count >>
       ELSE /\ response' = [response EXCEPT ![p] = "processing"]
            /\ strict_mode' = [strict_mode EXCEPT ![p] = strict]
            /\ issues' = [issues EXCEPT ![p] = <<>>]
            /\ issues_ref' = [issues_ref EXCEPT ![p] = list_count + 2]
            /\ list_count' = list_count + 2
            /\ batch_id' = [batch_id EXCEPT ![p] = uuid_count + 2]
            /\ uuid_count' = uuid_count + 2
            /\ batch_log' = Append(batch_log, batch_id'[p])
            /\ pc' = [pc EXCEPT ![p] = "read"]
            /\ file' = [file EXCEPT ![p] = file_content]
            /\ account' = [account EXCEPT ![p] = account_id]
            /\ df' = [df EXCEPT ![p] = NoTable]
            /\ idx' = [idx EXCEPT ![p] = 0]
            /\ transactions' = [transactions EXCEPT ![p] = <<>>]
            /\ skipped' = [skipped EXCEPT ![p] = 0]
            /\ summary' = [summary EXCEPT ![p] = NoSummary]
            /\ result' = [result EXCEPT ![p] = <<>>]
            /\ error' = [error EXCEPT ![p] = <<>>]
    /\ UNCHANGED << kept, stored >>

\* upload_csv after process_csv_file has returned: a row is added for
\* every draft of the result, all are committed, and the request is
\* answered
SaveTransactions(p) ==
    /\ response[p] = "processing"
    /\ pc[p] = "done"
    /\ stored' = stored \o [i \in 1..Len(result[p][1].transactions) |->
                                Transaction(result[p][1].transactions[i])]
    /\ response' = [response EXCEPT ![p] = "200"]
    /\ UNCHANGED << pc, strict_mode, issues, batch_id, file, account, df, idx,
                    transactions, skipped, summary, result, error, uuid_count,
                    batch_log, issues_ref, list_count, kept >>

\* upload_csv after an exception has left process_csv_file: the three
\* classified ones are answered with 400, any other leaves the handler
\* too; nothing was added to the session
UploadFails(p) ==
    /\ response[p] = "processing"
    /\ pc[p] = "raised"
    /\ response' = [response EXCEPT ![p] =
           IF error[p][1].kind \in {"CSVColumnError", "CSVParsingError", "CSVValidationError"}
           THEN "400" ELSE "500"]
    /\ UNCHANGED << pc, strict_mode, issues, batch_id, file, account, df, idx,
                    transactions, skipped, summary, result, error, uuid_count,
                    batch_log, issues_ref, list_count, kept, stored >>

\* delete_batch: the rows of the batch are deleted, 404 when there is none
delete_batch(b) ==
    /\ IF SelectSeq(stored, LAMBDA t : t.import_batch_id = b) = <<>>
       THEN /\ response' = [response EXCEPT !["delete"] = "404"]
            /\ UNCHANGED stored
       ELSE /\ stored' = SelectSeq(stored, LAMBDA t : t.import_batch_id # b)
            /\ response' = [response EXCEPT !["delete"] = "204"]
    /\ UNCHANGED << pc, strict_mode, issues, batch_id, file, account, df, idx,
                    transactions, skipped, summary, result, error, uuid_count,
                    batch_log, issues_ref, list_count, kept >>

\* the requests of the upload router, served in any interleaving
UploadNext ==
    \/ \E p \in Procs :
           \/ \E f \in UploadFiles, a \in RequestAccounts, strict \in BOOLEAN,
                 is_csv_name \in BOOLEAN :
                  upload_csv(p, f, a, strict, is_csv_name)
           \/ ReadCsv(p)
           \/ ValidateStructure(p)
           \/ TransformRow(p)
           \/ GenerateSummary(p)
           \/ Return(p)
           \/ SaveTransactions(p)
           \/ UploadFails(p)
    \/ \E b \in 1..uuid_count : delete_batch(b)

SpecUpload == Init /\ [][UploadNext]_vars

\* the body of process_csv from the try on: plain sequential code, so a
\* call that has begun takes its next step
Run(p) ==
    \/ ReadCsv(p)
    \/ ValidateStructure(p)
    \/ TransformRow(p)
    \/ GenerateSummary(p)
    \/ Return(p)

\* one processor called on the files of PairFiles
LiveNext ==
    \/ \E strict \in BOOLEAN : Construct("p1", strict)
    \/ \E f \in PairFiles, a \in AccountIds : Call("p1", f, a)
    \/ Run("p1")

\* the loop of _transform_data has a row left: TransformRow(p) is enabled
RowLeft(p) == pc[p] = "transform" /\ idx[p] < Len(df[p].rows)

\* weak fairness of each step of Run(p); that of TransformRow(p) is written
\* out, with RowLeft(p) for ENABLED <<TransformRow(p)>>_vars
Fair(p) ==
    /\ WF_vars(ReadCsv(p))
    /\ WF_vars(ValidateStructure(p))
    /\ ([]<>(~RowLeft(p)) \/ []<><<TransformRow(p)>>_vars)
    /\ WF_vars(GenerateSummary(p))
    /\ WF_vars(Return(p))

SpecLive == Init /\ [][LiveNext]_vars /\ Fair("p1")

(***************************************************************************)
(* Properties                                                              *)
(***************************************************************************)

\* the step in which processor p transforms a row, the row it transforms
\* and, when the row is accepted, the draft the step appends
RowTransformed(p) == pc[p] = "transform" /\ idx'[p] = idx[p] + 1

CurrentRow(p) == df[p].rows[idx[p] + 1]

RowAccepted(p) == RowTransformed(p) /\ Len(transactions'[p]) = Len(transactions[p]) + 1

NewDraft(p) == transactions'[p][Len(transactions'[p])]

\* the file was decoded into a DataFrame
Decoded(p) ==
    /\ pc[p] \notin {"none", "idle", "read"}
    /\ file[p].bytes = "text"
    /\ ~(file[p].bad_lines /\ strict_mode[p])

\* structural validation is over
Validated(p) == Decoded(p) /\ pc[p] # "validate"

IsErrorIssue(i) == i.severity = "error"

(* ---- C1 ---- *)

\* the signed number a monetary cell denotes, as the Decimal constructor
\* reads it before any rounding
Denoted(cell) ==
    LET t == MonetaryText(Strip(Str(cell)))
        d == DecimalCtor(t.value_str)
    IN  IF t.is_negative THEN DecimalNeg(d) ELSE d

\* the cell is not empty and denotes a number with at most three decimals
HasValue(cell) ==
    /\ ~IsNa(cell)
    /\ Strip(cell) # <<>>
    /\ Denoted(cell).valid
    /\ ~Denoted(cell).nan
    /\ Len(Denoted(cell).frac) <= 3

\* that number in thousandths
Thousandths(cell) ==
    LET d == Denoted(cell)
        mag == d.units * 1000 + FracDigit(d.frac, 1) * 100
               + FracDigit(d.frac, 2) * 10 + FracDigit(d.frac, 3)
    IN  IF d.neg THEN -mag ELSE mag

\* a number of thousandths rounded to cents, ties to the even cent
RoundToCents(t) ==
    LET mag == IF t < 0 THEN -t ELSE t
        q == mag \div 10
        r == mag % 10
        rounded == IF r > 5 \/ (r = 5 /\ q % 2 = 1) THEN q + 1 ELSE q
    IN  IF t < 0 THEN -rounded ELSE rounded

BothCellsHaveValue(p) ==
    /\ HasValue(CurrentRow(p)[COL_DEBIT + 1])
    /\ HasValue(CurrentRow(p)[COL_CREDIT + 1])

\* C1 as stated: the amount of an accepted row whose debit and credit cells
\* denote d and c is c - d rounded to two decimals.
C1_AmountIsRoundedDifference ==
    [][\A p \in Procs :
          (RowAccepted(p) /\ BothCellsHaveValue(p)) =>
              NewDraft(p).amount =
                  Cents(RoundToCents(Thousandths(CurrentRow(p)[COL_CREDIT + 1])
                                     - Thousandths(CurrentRow(p)[COL_DEBIT + 1])))]_vars

\* C1 amended: each of the two cells is rounded to two decimals (ties to
\* even) before the subtraction, so the amount of an accepted row is
\* round(c) - round(d); it is negative when only the debit rounds to a
\* positive amount and positive when only the credit does.
C1_AmountIsDifferenceOfRounded ==
    [][\A p \in Procs :
          (RowAccepted(p) /\ BothCellsHaveValue(p)) =>
              LET c == RoundToCents(Thousandths(CurrentRow(p)[COL_CREDIT + 1]))
                  d == RoundToCents(Thousandths(CurrentRow(p)[COL_DEBIT + 1]))
              IN  /\ NewDraft(p).amount = Cents(c - d)
                  /\ (c = 0 /\ d > 0) => NewDraft(p).amount.c < 0
                  /\ (d = 0 /\ c > 0) => NewDraft(p).amount.c > 0]_vars

\* an accepted row with debit 0.006 and credit 0.014: its amount is 0.00
C1_Witness ==
    \E p \in Procs :
        /\ pc[p] = "summary"
        /\ Len(df[p].rows) = 1
        /\ df[p].rows[1][COL_DEBIT + 1] = M_006
        /\ df[p].rows[1][COL_CREDIT + 1] = M_014
        /\ Len(transactions[p]) = 1
        /\ transactions[p][1].amount = Cents(0)

(* ---- C2 ---- *)

HasErrorIssue(seq) == \E i \in 1..Len(seq) : IsErrorIssue(seq[i])

\* the first Error issue of a list that holds one
FirstErrorIssue(seq) ==
    seq[CHOOSE i \in 1..Len(seq) :
            IsErrorIssue(seq[i]) /\ \A j \in 1..(i - 1) : ~IsErrorIssue(seq[j])]

\* C2: in strict mode the first row with an Error issue aborts the call
\* with a ValidationError "Row <n>: <first Error message of row n>"; row n
\* is the last row transformed and no ProcessingResult is returned.
C2_StrictAbortsAtFirstErrorRow ==
    \A p \in Procs :
        (strict_mode[p] /\ HasErrorIssue(issues[p])) =>
            LET first == FirstErrorIssue(issues[p])
            IN  /\ pc[p] = "raised"
                /\ error[p] = << Exception("CSVValidationError",
                                           <<"Row ">> \o NatToText(first.row_number)
                                               \o <<": ">> \o first.message) >>
                /\ first.row_number >= 1
                /\ idx[p] = first.row_number
                /\ \A i \in 1..Len(issues[p]) :
                       IsErrorIssue(issues[p][i]) =>
                           issues[p][i].row_number = first.row_number
                /\ result[p] = <<>>

\* a strict call that accepted row 1 and aborted on row 2, whose debit and
\* credit cells are both unparseable
C2_Witness ==
    \E p \in Procs :
        /\ strict_mode[p]
        /\ pc[p] = "raised"
        /\ Len(df[p].rows) >= 2
        /\ idx[p] = 2
        /\ Len(transactions[p]) = 1
        /\ Len(SelectSeq(issues[p], IsErrorIssue)) = 2

(* ---- C3 ---- *)

\* C3: a strict call that returns a ProcessingResult skipped nothing,
\* recorded no Error issue and accepted every row; a call that aborts
\* returns no ProcessingResult, whatever it had accepted.
C3_StrictAllOrNothing ==
    \A p \in Procs :
        /\ (strict_mode[p] /\ result[p] # <<>>) =>
               /\ pc[p] = "done"
               /\ result[p][1].skipped_rows = 0
               /\ ~HasErrorIssue(result[p][1].issues)
               /\ Len(result[p][1].transactions) = Len(file[p].table.rows)
               /\ result[p][1].total_rows = Len(file[p].table.rows)
        /\ pc[p] = "raised" => result[p] = <<>>

\* a strict call that aborted after it had accepted a row
C3_Witness ==
    \E p \in Procs :
        /\ strict_mode[p]
        /\ pc[p] = "raised"
        /\ error[p][1].kind = "CSVValidationError"
        /\ Len(transactions[p]) >= 1
        /\ result[p] = <<>>

(* ---- C4 ---- *)

\* the date cell is missing or blank, or its text parses under none of the
\* six formats
DateUnparseable(cell) ==
    \/ IsNa(cell)
    \/ Strip(cell) = <<>>
    \/ /\ ~RaisesUnexpected(Strip(cell))
       /\ ~ToDatetime(Strip(cell), DATE_FORMAT).ok
       /\ \A i \in 1..Len(alternative_formats) :
              ~ToDatetime(Strip(cell), alternative_formats[i]).ok

\* the issues a step adds to the list of p
NewIssues(p) == SubSeq(issues'[p], Len(issues[p]) + 1, Len(issues'[p]))

\* C4: in lenient mode a row with such a date cell adds no draft, adds one
\* to skipped, and records exactly one Error issue, which has column
\* "Date" and the row's number; the call goes on.
C4_LenientBadDateSkipsRow ==
    [][\A p \in Procs :
          (RowTransformed(p) /\ ~strict_mode[p]
              /\ DateUnparseable(CurrentRow(p)[COL_DATE + 1])) =>
              /\ transactions'[p] = transactions[p]
              /\ skipped'[p] = skipped[p] + 1
              /\ SubSeq(issues'[p], 1, Len(issues[p])) = issues[p]
              /\ Len(SelectSeq(NewIssues(p), IsErrorIssue)) = 1
              /\ \A i \in 1..Len(NewIssues(p)) :
                     IsErrorIssue(NewIssues(p)[i]) =>
                         /\ NewIssues(p)[i].column = "Date"
                         /\ NewIssues(p)[i].row_number = idx[p] + 1
              /\ pc'[p] # "raised"]_vars

\* a lenient call that returned after skipping "not-a-date" in row 2
C4_Witness ==
    \E p \in Procs :
        /\ ~strict_mode[p]
        /\ pc[p] = "done"
        /\ Len(df[p].rows) = 2
        /\ df[p].rows[2][COL_DATE + 1] = T_notdate
        /\ result[p][1].skipped_rows = 1
        /\ Len(result[p][1].transactions) = 1

(* ---- C5 ---- *)

StructureAccepted(p) ==
    /\ Validated(p)
    /\ file[p].table.ncols >= REQUIRED_COLUMNS
    /\ file[p].table.rows # <<>>

\* C5: a lenient call whose table passed structural validation never
\* aborts: it returns a ProcessingResult with success = TRUE that holds
\* every issue recorded during the call.
C5_LenientNeverAborts ==
    \A p \in Procs :
        /\ (~strict_mode[p] /\ StructureAccepted(p)) => pc[p] # "raised"
        /\ (~strict_mode[p] /\ pc[p] = "done") =>
               /\ result[p] # <<>>
               /\ result[p][1].success
               /\ result[p][1].issues = issues[p]

(* ---- C6 ---- *)

\* C6: a table with fewer than 4 columns ends the call with a ColumnError
\* before any row is transformed: no issue is recorded, no row is counted
\* and no ProcessingResult is returned, in either mode.
C6_TooFewColumnsIsColumnError ==
    \A p \in Procs :
        (Validated(p) /\ file[p].table.ncols < REQUIRED_COLUMNS) =>
            /\ pc[p] = "raised"
            /\ error[p] # <<>>
            /\ error[p][1].kind = "CSVColumnError"
            /\ issues[p] = <<>>
            /\ idx[p] = 0
            /\ transactions[p] = <<>>
            /\ skipped[p] = 0
            /\ result[p] = <<>>

\* a strict call on a three-column table of two rows
C6_Witness ==
    \E p \in Procs :
        /\ strict_mode[p]
        /\ pc[p] = "raised"
        /\ df[p].ncols = REQUIRED_COLUMNS - 1
        /\ Len(df[p].rows) = 2
        /\ error[p][1].kind = "CSVColumnError"

(* ---- C7 ---- *)

NoDataRowsError == Exception("CSVValidationError", <<"CSV file contains no data rows">>)

\* C7 as stated: a table without rows ends the call with the ValidationError
\* "no data rows" and no ProcessingResult is returned.
C7_NoRowsIsValidationError ==
    \A p \in Procs :
        (Validated(p) /\ file[p].table.rows = <<>>) =>
            /\ pc[p] = "raised"
            /\ error[p] = << NoDataRowsError >>
            /\ result[p] = <<>>

\* C7 amended: a table without rows ends the call with the ValidationError
\* "no data rows" when it has at least 4 columns and with a ColumnError
\* when it has fewer (the column count is tested first); no
\* ProcessingResult is returned in either case.
C7_NoRowsIsValidationErrorUnlessTooNarrow ==
    \A p \in Procs :
        (Validated(p) /\ file[p].table.rows = <<>>) =>
            /\ pc[p] = "raised"
            /\ error[p] # <<>>
            /\ IF file[p].table.ncols >= REQUIRED_COLUMNS
               THEN error[p] = << NoDataRowsError >>
               ELSE error[p][1].kind = "CSVColumnError"
            /\ result[p] = <<>>

\* a table of five columns and no rows: the call ended with "no data rows"
C7_Witness ==
    \E p \in Procs :
        /\ pc[p] = "raised"
        /\ Decoded(p)
        /\ df[p].rows = <<>>
        /\ df[p].ncols = REQUIRED_COLUMNS + 1
        /\ error[p] = << NoDataRowsError >>

(* ---- C8 ---- *)

\* C8: a file of zero bytes, or one whose bytes do not decode, ends the
\* call with a ParsingError: never another error, never a ProcessingResult.
C8_EmptyOrUndecodableIsParsingError ==
    \A p \in Procs :
        (pc[p] \notin {"none", "idle", "read"}
            /\ file[p].bytes \in {"zero", "undecodable"}) =>
            /\ pc[p] = "raised"
            /\ error[p] # <<>>
            /\ error[p][1].kind = "CSVParsingError"
            /\ result[p] = <<>>

\* a call on undecodable bytes that ended with a ParsingError
C8_Witness ==
    \E p \in Procs :
        /\ pc[p] = "raised"
        /\ file[p].bytes = "undecodable"
        /\ error[p][1].kind = "CSVParsingError"

(* ---- C9 ---- *)

\* after validation of a table of more than 4 columns the issue list starts
\* with the one table-level Warning, and validation did not end the call
\* of a table that has rows
ExtraColumnsWarned(p) ==
    (Validated(p) /\ file[p].table.ncols > REQUIRED_COLUMNS) =>
        /\ issues[p] # <<>>
        /\ issues[p][1].row_number = 0
        /\ issues[p][1].column = "None"
        /\ issues[p][1].severity = "warning"
        /\ \A i \in 2..Len(issues[p]) : issues[p][i].row_number >= 1
        /\ (file[p].table.rows # <<>> /\ pc[p] = "raised") => idx[p] >= 1

\* the step that transforms a row of more than 4 columns does to the
\* drafts and to the issues what _process_row does with its first 4 cells
RowUsesFirstFourColumns(p) ==
    (RowTransformed(p) /\ df[p].ncols > REQUIRED_COLUMNS) =>
        LET r == _process_row(SubSeq(CurrentRow(p), 1, REQUIRED_COLUMNS), idx[p] + 1,
                              account[p], batch_id[p])
        IN  /\ transactions'[p] =
                  IF r.status = "ok" THEN Append(transactions[p], r.transaction)
                  ELSE transactions[p]
            /\ SubSeq(issues'[p], 1, Len(issues[p]) + Len(r.issues)) = issues[p] \o r.issues

\* C9: a table of more than 4 columns gets exactly one Warning with
\* row_number 0 and column None, the call goes on, and every draft and
\* every row-level issue is what the first 4 columns of the row give.
C9_ExtraColumnsIgnored ==
    /\ [](\A p \in Procs : ExtraColumnsWarned(p))
    /\ [][\A p \in Procs : RowUsesFirstFourColumns(p)]_vars

\* a returned call on a five-column table whose fifth cell is "30.00"
C9_Witness ==
    \E p \in Procs :
        /\ pc[p] = "done"
        /\ df[p].ncols = REQUIRED_COLUMNS + 1
        /\ df[p].rows[1][REQUIRED_COLUMNS + 1] = M_thirty
        /\ Len(result[p][1].transactions) >= 1
        /\ result[p][1].issues[1].row_number = 0

(* ---- C10 ---- *)

\* C10: the drafts of one ProcessingResult all carry the batch_id of the
\* result, and no two process_csv calls have the same batch_id.
C10_OneBatchIdPerCall ==
    /\ \A p \in Procs :
           /\ \A i \in 1..Len(transactions[p]) :
                  transactions[p][i].import_batch_id = batch_id[p]
           /\ result[p] # <<>> =>
                  \A i \in 1..Len(result[p][1].transactions) :
                      result[p][1].transactions[i].import_batch_id = result[p][1].batch_id
    /\ \A i, j \in 1..Len(batch_log) : i # j => batch_log[i] # batch_log[j]

\* the second call of a run returned two drafts
C10_Witness ==
    \E p \in Procs :
        /\ Len(batch_log) = 2
        /\ pc[p] = "done"
        /\ Len(result[p][1].transactions) = 2

(* ---- C11 ---- *)

\* a ProcessingResult with its batch id, and that of its drafts, blanked
WithoutBatchId(r) ==
    [r EXCEPT !.batch_id = 0,
              !.transactions = [i \in 1..Len(r.transactions) |->
                                    [r.transactions[i] EXCEPT !.import_batch_id = 0]]]

\* the call of p has ended
CallOver(p) == pc[p] \in {"done", "raised"}

SameInput(p, q) ==
    /\ file[p] = file[q]
    /\ strict_mode[p] = strict_mode[q]
    /\ account[p] = account[q]

\* C11: two calls on the same bytes with the same mode and account_id
\* either both abort, with the same kind of error, or both return, and
\* their results are equal in everything but the batch id.
C11_Deterministic ==
    \A p, q \in Procs :
        (p # q /\ CallOver(p) /\ CallOver(q) /\ SameInput(p, q)) =>
            /\ pc[p] = pc[q]
            /\ pc[p] = "raised" =>
                   /\ error[p][1].kind = error[q][1].kind
                   /\ result[p] = <<>> /\ result[q] = <<>>
            /\ pc[p] = "done" =>
                   WithoutBatchId(result[p][1]) = WithoutBatchId(result[q][1])

\* two lenient calls on the same two-row table have both returned, under
\* different batch ids
C11_Witness ==
    /\ pc["p1"] = "done" /\ pc["p2"] = "done"
    /\ SameInput("p1", "p2")
    /\ ~strict_mode["p1"]
    /\ Len(result["p1"][1].transactions) = 1
    /\ result["p1"][1].skipped_rows = 1
    /\ result["p1"][1].batch_id # result["p2"][1].batch_id


\* the number of cents a total of the summary reads as
TotalCents(text) == Quantize(DecimalCtor(text)).c

RECURSIVE SumOfPositive(_)
SumOfPositive(drafts) ==
    IF drafts = <<>> THEN 0
    ELSE (IF Head(drafts).amount.c > 0 THEN Head(drafts).amount.c ELSE 0)
         + SumOfPositive(Tail(drafts))

RECURSIVE SumOfNegativeMagnitudes(_)
SumOfNegativeMagnitudes(drafts) ==
    IF drafts = <<>> THEN 0
    ELSE (IF Head(drafts).amount.c < 0 THEN -Head(drafts).amount.c ELSE 0)
         + SumOfNegativeMagnitudes(Tail(drafts))

RECURSIVE SumOfAmounts(_)
SumOfAmounts(drafts) ==
    IF drafts = <<>> THEN 0 ELSE Head(drafts).amount.c + SumOfAmounts(Tail(drafts))

\* C12: in every returned result total_income is the sum of the positive
\* accepted amounts, total_expenses the sum of the absolute values of the
\* negative ones, and net_amount is total_income - total_expenses, the sum
\* of all accepted amounts.
C12_TotalsAreSums ==
    \A p \in Procs :
        result[p] # <<>> =>
            LET r == result[p][1]
            IN  /\ \A i \in 1..Len(r.transactions) : ~r.transactions[i].amount.nan
                /\ TotalCents(r.summary.total_income) = SumOfPositive(r.transactions)
                /\ TotalCents(r.summary.total_expenses)
                       = SumOfNegativeMagnitudes(r.transactions)
                /\ TotalCents(r.summary.net_amount)
                       = TotalCents(r.summary.total_income)
                         - TotalCents(r.summary.total_expenses)
                /\ TotalCents(r.summary.net_amount) = SumOfAmounts(r.transactions)

\* a result with an expense of 50.00 and an income of 30.00
C12_Witness ==
    \E p \in Procs :
        /\ result[p] # <<>>
        /\ Len(result[p][1].transactions) = 2
        /\ result[p][1].transactions[1].amount = Cents(-5000)
        /\ result[p][1].transactions[2].amount = Cents(3000)
        /\ result[p][1].summary.total_expenses = <<"5", "0", ".", "0", "0">>
        /\ result[p][1].summary.net_amount = <<"-", "2", "0", ".", "0", "0">>

(* ---- C13 ---- *)

DateNumber(dt) == dt.y * 10000 + dt.m * 100 + dt.d

\* the date an ISO text of the summary names
DateOfIso(text) == ToDatetime(text, DATE_FORMAT).date

ZeroTotal == <<"0", ".", "0", "0">>

\* C13: transaction_count is the number of accepted drafts; with no draft
\* the date range is None and the three totals are 0.00; otherwise the
\* range runs from the least to the greatest date of the accepted drafts.
C13_CountAndDateRange ==
    \A p \in Procs :
        result[p] # <<>> =>
            LET r == result[p][1]
                n == Len(r.transactions)
            IN  /\ r.summary.transaction_count = n
                /\ n = 0 =>
                       /\ r.summary.date_range = <<>>
                       /\ r.summary.total_income = ZeroTotal
                       /\ r.summary.total_expenses = ZeroTotal
                       /\ r.summary.net_amount = ZeroTotal
                /\ n > 0 =>
                       /\ Len(r.summary.date_range) = 1
                       /\ \E i \in 1..n :
                              r.transactions[i].date = DateOfIso(r.summary.date_range[1].start)
                       /\ \E i \in 1..n :
                              r.transactions[i].date = DateOfIso(r.summary.date_range[1].end)
                       /\ \A i \in 1..n :
                              /\ DateNumber(DateOfIso(r.summary.date_range[1].start))
                                     <= DateNumber(r.transactions[i].date)
                              /\ DateNumber(r.transactions[i].date)
                                     <= DateNumber(DateOfIso(r.summary.date_range[1].end))

\* a result whose first draft is dated after its second one
C13_Witness ==
    \E p \in Procs :
        /\ result[p] # <<>>
        /\ Len(result[p][1].transactions) = 2
        /\ DateNumber(result[p][1].transactions[1].date)
               > DateNumber(result[p][1].transactions[2].date)
        /\ result[p][1].summary.date_range[1].start = T_iso
        /\ result[p][1].summary.date_range[1].end = T_iso_next

(* ---- C14 ---- *)

\* the date cell holds a text the date library answers for
HasDateText(cell) ==
    /\ ~IsNa(cell)
    /\ Strip(cell) # <<>>
    /\ ~RaisesUnexpected(Strip(cell))

\* the fallback formats in the order the claim gives them
FallbackOrder ==
    << DateFmt("%m/%d/%Y", <<"m", "d", "Y">>, "/"),
       DateFmt("%d/%m/%Y", <<"d", "m", "Y">>, "/"),
       DateFmt("%m-%d-%Y", <<"m", "d", "Y">>, "-"),
       DateFmt("%Y/%m/%d", <<"Y", "m", "d">>, "/"),
       DateFmt("%d-%m-%Y", <<"d", "m", "Y">>, "-") >>

PrimaryFormat == DateFmt("%Y-%m-%d", <<"Y", "m", "d">>, "-")

DateIssues(seq) == SelectSeq(seq, LAMBDA i : i.column = "Date")

\* what the claim says of a date text: the date it is read as, and the
\* fallback format named in the one Info issue (0: primary format, no issue)
ReadsAs(p, text, k, dt) ==
    /\ RowAccepted(p) => NewDraft(p).date = dt
    /\ IF k = 0 THEN DateIssues(NewIssues(p)) = <<>>
       ELSE DateIssues(NewIssues(p)) =
                << Issue(idx[p] + 1, "Date", "info",
                         <<"Date parsed with alternative format '",
                           FallbackOrder[k].text, "'">>, text) >>

\* C14: YYYY-MM-DD is tried first and accepted without an issue; otherwise
\* the five fallback formats are tried in the order given, the first that
\* matches gives the date and is named in exactly one Info issue of
\* column "Date"; "03/04/2024" is read as the 4th of March.
C14_DateFormatsInOrder ==
    [][\A p \in Procs :
          (RowTransformed(p) /\ HasDateText(CurrentRow(p)[COL_DATE + 1])) =>
              LET text == Strip(CurrentRow(p)[COL_DATE + 1])
              IN  /\ ToDatetime(text, PrimaryFormat).ok =>
                         ReadsAs(p, text, 0, ToDatetime(text, PrimaryFormat).date)
                  /\ ~ToDatetime(text, PrimaryFormat).ok =>
                         \A k \in 1..Len(FallbackOrder) :
                             (/\ ToDatetime(text, FallbackOrder[k]).ok
                              /\ \A j \in 1..(k - 1) : ~ToDatetime(text, FallbackOrder[j]).ok)
                             => ReadsAs(p, text, k, ToDatetime(text, FallbackOrder[k]).date)
                  /\ (text = T_ambig /\ RowAccepted(p)) =>
                         NewDraft(p).date = [y |-> 2024, m |-> 3, d |-> 4]]_vars

\* a returned call whose row is dated "03/04/2024": the draft is of the 4th
\* of March and the issue names %m/%d/%Y
C14_Witness ==
    \E p \in Procs :
        /\ pc[p] = "done"
        /\ df[p].rows[1][COL_DATE + 1] = T_ambig
        /\ Len(result[p][1].transactions) = 1
        /\ result[p][1].transactions[1].date = [y |-> 2024, m |-> 3, d |-> 4]
        /\ \E i \in 1..Len(result[p][1].issues) :
               /\ result[p][1].issues[i].severity = "info"
               /\ result[p][1].issues[i].message =
                      <<"Date parsed with alternative format '", "%m/%d/%Y", "'">>

(* ---- C15 ---- *)

\* the cell is null or blank
IsEmptyCell(cell) == IsNa(cell) \/ Strip(cell) = <<>>

\* the date cell gives a date
DateParses(cell) == HasDateText(cell) /\ ~DateUnparseable(cell)

\* the cents a monetary cell that is empty or denotes a number stands for
CellCents(cell) ==
    IF IsEmptyCell(cell) THEN 0 ELSE RoundToCents(Thousandths(cell))

IssuesOfColumn(seq, column) == SelectSeq(seq, LAMBDA i : i.column = column)

\* C15: an empty, blank or null debit or credit cell counts as 0.00 and
\* records no issue for its column; a row with a valid date whose debit
\* and credit are both empty is accepted with amount 0.00 and one Info
\* issue for the zero amount.
C15_EmptyMoneyIsZero ==
    [][\A p \in Procs :
          (RowTransformed(p) /\ DateParses(CurrentRow(p)[COL_DATE + 1])) =>
              LET debit  == CurrentRow(p)[COL_DEBIT + 1]
                  credit == CurrentRow(p)[COL_CREDIT + 1]
              IN  /\ IsEmptyCell(debit) => IssuesOfColumn(NewIssues(p), "Debit") = <<>>
                  /\ IsEmptyCell(credit) => IssuesOfColumn(NewIssues(p), "Credit") = <<>>
                  /\ (IsEmptyCell(debit) /\ HasValue(credit)) =>
                         RowAccepted(p) /\ NewDraft(p).amount = Cents(CellCents(credit))
                  /\ (HasValue(debit) /\ IsEmptyCell(credit)) =>
                         RowAccepted(p) /\ NewDraft(p).amount = Cents(-CellCents(debit))
                  /\ (IsEmptyCell(debit) /\ IsEmptyCell(credit)) =>
                         /\ RowAccepted(p)
                         /\ NewDraft(p).amount = Cents(0)
                         /\ IssuesOfColumn(NewIssues(p), "None") =
                                << Issue(idx[p] + 1, "None", "info",
                                         <<"Transaction amount is $0.00">>, NoneText) >>]_vars

\* a returned call whose row has a null debit and a blank credit
C15_Witness ==
    \E p \in Procs :
        /\ pc[p] = "done"
        /\ df[p].rows[1][COL_DEBIT + 1] = PdNaN
        /\ df[p].rows[1][COL_CREDIT + 1] = T_blank
        /\ Len(result[p][1].transactions) = 1
        /\ result[p][1].transactions[1].amount = Cents(0)
        /\ Len(result[p][1].issues) = 1

(* ---- C16 ---- *)

\* the text between the parentheses of a cell wrapped in them
Enclosed(cell) == SubSeq(Strip(cell), 2, Len(Strip(cell)) - 1)

\* the cell is wrapped in parentheses around a number
IsWrapped(cell) ==
    /\ ~IsNa(cell)
    /\ Len(Strip(cell)) >= 2
    /\ Head(Strip(cell)) = "("
    /\ Strip(cell)[Len(Strip(cell))] = ")"
    /\ HasValue(Enclosed(cell))

\* the enclosed text is a plain amount: no minus sign, no parentheses
EnclosesPlainAmount(cell) ==
    /\ IsWrapped(cell)
    /\ \A i \in 1..Len(Enclosed(cell)) : Enclosed(cell)[i] \notin {"-", "+", "(", ")"}

\* the credit cell is empty or denotes a number
CreditParses(cell) == IsEmptyCell(cell) \/ HasValue(cell)

\* C16 as stated: a cell wrapped in parentheses parses to the negative of
\* the enclosed value v, so as a debit it makes the amount credit + v; a
\* debit "(x)" with credit 0.00 is accepted with amount +x.
C16_ParenthesesNegate ==
    [][\A p \in Procs :
          (/\ RowTransformed(p)
           /\ DateParses(CurrentRow(p)[COL_DATE + 1])
           /\ IsWrapped(CurrentRow(p)[COL_DEBIT + 1])
           /\ CreditParses(CurrentRow(p)[COL_CREDIT + 1])) =>
              /\ RowAccepted(p)
              /\ NewDraft(p).amount =
                     Cents(CellCents(CurrentRow(p)[COL_CREDIT + 1])
                           + CellCents(Enclosed(CurrentRow(p)[COL_DEBIT + 1])))]_vars

\* C16 amended: a cell wrapped in parentheses around a plain amount v (no
\* sign, no further parentheses) parses to -v; around an amount with a
\* minus sign it parses to that negative amount, the sign is not taken
\* twice.
C16_ParenthesesNegatePlainAmount ==
    [][\A p \in Procs :
          (/\ RowTransformed(p)
           /\ DateParses(CurrentRow(p)[COL_DATE + 1])
           /\ EnclosesPlainAmount(CurrentRow(p)[COL_DEBIT + 1])
           /\ CreditParses(CurrentRow(p)[COL_CREDIT + 1])) =>
              /\ RowAccepted(p)
              /\ NewDraft(p).amount =
                     Cents(CellCents(CurrentRow(p)[COL_CREDIT + 1])
                           + CellCents(Enclosed(CurrentRow(p)[COL_DEBIT + 1])))]_vars

\* a returned call whose row has debit "(50.00)" and credit "0.00": its
\* amount is +50.00
C16_Witness ==
    \E p \in Procs :
        /\ pc[p] = "done"
        /\ df[p].rows[1][COL_DEBIT + 1] = M_paren
        /\ df[p].rows[1][COL_CREDIT + 1] = M_zero
        /\ Len(result[p][1].transactions) = 1
        /\ result[p][1].transactions[1].amount = Cents(5000)

(* ---- C17 ---- *)

\* the number of characters of a stored description
DescriptionLength(description) ==
    IF description = <<"No description">> THEN 14 ELSE Len(description)

\* C17: a description whose trimmed text has more than 500 characters is
\* stored as its first 500 characters, with one Warning issue that states
\* both lengths; no accepted draft has a description of more than 500
\* characters.
C17_DescriptionTruncated ==
    /\ [](\A p \in Procs : \A i \in 1..Len(transactions[p]) :
              DescriptionLength(transactions[p][i].description) <= 500)
    /\ [][\A p \in Procs :
             (/\ RowTransformed(p)
              /\ DateParses(CurrentRow(p)[COL_DATE + 1])
              /\ ~IsNa(CurrentRow(p)[COL_DESCRIPTION + 1])) =>
                 LET text == Strip(CurrentRow(p)[COL_DESCRIPTION + 1])
                 IN  IF Len(text) > 500
                     THEN /\ IssuesOfColumn(NewIssues(p), "Description") =
                                 << Issue(idx[p] + 1, "Description", "warning",
                                          <<"Description truncated from ">>
                                              \o NatToText(Len(text))
                                              \o <<" to ", "5", "0", "0", " characters">>,
                                          NoneText) >>
                          /\ RowAccepted(p) =>
                                 /\ Len(NewDraft(p).description) = 500
                                 /\ NewDraft(p).description = SubSeq(text, 1, 500)
                     ELSE text # <<>> =>
                          /\ IssuesOfColumn(NewIssues(p), "Description") = <<>>
                          /\ RowAccepted(p) => NewDraft(p).description = text]_vars

\* a returned call whose description had 600 characters between blanks
C17_Witness ==
    \E p \in Procs :
        /\ pc[p] = "done"
        /\ df[p].rows[1][COL_DESCRIPTION + 1] = T_long
        /\ Len(result[p][1].transactions) = 1
        /\ Len(result[p][1].transactions[1].description) = 500
        /\ result[p][1].transactions[1].description[500] = "A"
        /\ \E i \in 1..Len(result[p][1].issues) :
               /\ result[p][1].issues[i].column = "Description"
               /\ result[p][1].issues[i].severity = "warning"

(* ---- C18 ---- *)

\* the two monetary cells of the row both parse
MoneyParses(row) ==
    /\ IsEmptyCell(row[COL_DEBIT + 1]) \/ Denoted(row[COL_DEBIT + 1]).valid
    /\ IsEmptyCell(row[COL_CREDIT + 1]) \/ Denoted(row[COL_CREDIT + 1]).valid

\* C18: no Error issue ever has column "Description"; a description that
\* is empty after trimming becomes "No description" with one Warning
\* issue; and a row whose date and monetary cells parse is accepted
\* whatever its description is, in either mode.
C18_DescriptionNeverFails ==
    /\ [](\A p \in Procs : \A i \in 1..Len(issues[p]) :
              issues[p][i].column = "Description" => issues[p][i].severity = "warning")
    /\ [][\A p \in Procs :
             (RowTransformed(p) /\ DateParses(CurrentRow(p)[COL_DATE + 1])) =>
                 /\ IsEmptyCell(CurrentRow(p)[COL_DESCRIPTION + 1]) =>
                        /\ Len(IssuesOfColumn(NewIssues(p), "Description")) = 1
                        /\ IssuesOfColumn(NewIssues(p), "Description")[1].severity = "warning"
                        /\ IssuesOfColumn(NewIssues(p), "Description")[1].row_number
                               = idx[p] + 1
                        /\ RowAccepted(p) =>
                               NewDraft(p).description = <<"No description">>
                 /\ MoneyParses(CurrentRow(p)) =>
                        /\ RowAccepted(p)
                        /\ skipped'[p] = skipped[p]
                        /\ pc'[p] # "raised"]_vars

\* a strict call that returned a draft for a row without a description
C18_Witness ==
    \E p \in Procs :
        /\ strict_mode[p]
        /\ pc[p] = "done"
        /\ IsEmptyCell(df[p].rows[1][COL_DESCRIPTION + 1])
        /\ Len(result[p][1].transactions) >= 1
        /\ result[p][1].transactions[1].description = <<"No description">>
        /\ result[p][1].skipped_rows = 0

(* ---- C19 ---- *)

OnlyWarningOrInfo(seq) == \A i \in 1..Len(seq) : seq[i].severity \in {"warning", "info"}

\* no date cell of the table makes the date library raise anything but
\* ValueError
NoUnexpectedException(table) ==
    \A i \in 1..Len(table.rows) :
        IsNa(table.rows[i][COL_DATE + 1])
            \/ ~RaisesUnexpected(Strip(table.rows[i][COL_DATE + 1]))

\* the call of p is over
Finished(p) == pc[p] \in {"done", "raised"}

\* C19: a row whose issues are all Warning or Info is accepted, in either
\* mode, and a strict call on a structurally valid table whose issues are
\* all Warning or Info returns a ProcessingResult.
C19_WarningsNeverAbort ==
    /\ [](\A p \in Procs :
              (/\ strict_mode[p]
               /\ Finished(p)
               /\ StructureAccepted(p)
               /\ NoUnexpectedException(file[p].table)
               /\ OnlyWarningOrInfo(issues[p])) =>
                  pc[p] = "done" /\ result[p] # <<>>)
    /\ [][\A p \in Procs :
             (/\ RowTransformed(p)
              /\ NoUnexpectedException(df[p])
              /\ OnlyWarningOrInfo(NewIssues(p))) =>
                 /\ RowAccepted(p)
                 /\ skipped'[p] = skipped[p]
                 /\ pc'[p] # "raised"]_vars

(* ---- C20 ---- *)

\* all that processor p and its call hold
Local(p) ==
    << pc[p], strict_mode[p], issues[p], batch_id[p], file[p], account[p], df[p],
       idx[p], transactions[p], skipped[p], summary[p], result[p], error[p] >>

\* C20: a step of one processor changes nothing of another, and what a
\* call returns is its own: the issues, counts and drafts of its own
\* table, the drafts under a batch id no other processor has.
C20_NoSharedState ==
    /\ [][\A p, q \in Procs :
             (p # q /\ Local(p)' # Local(p)) => Local(q)' = Local(q)]_vars
    /\ [](\A p \in Procs :
              /\ \A q \in Procs :
                     (p # q /\ pc[p] # "none" /\ pc[q] # "none") =>
                         batch_id[p] # batch_id[q]
              /\ \A i \in 1..Len(issues[p]) :
                     issues[p][i].row_number <= Len(file[p].table.rows)
              /\ result[p] # <<>> =>
                     /\ result[p][1].batch_id = batch_id[p]
                     /\ result[p][1].issues = issues[p]
                     /\ result[p][1].transactions = transactions[p]
                     /\ result[p][1].total_rows = Len(file[p].table.rows)
                     /\ result[p][1].processed_rows + result[p][1].skipped_rows
                            = Len(file[p].table.rows)
                     /\ \A i \in 1..Len(result[p][1].transactions) :
                            /\ result[p][1].transactions[i].import_batch_id = batch_id[p]
                            /\ result[p][1].transactions[i].account_id = account[p])

\* both processors are between the two rows of different tables, one
\* with issues recorded and the other with a draft and no issue
C20_Witness ==
    /\ pc["p1"] = "transform" /\ pc["p2"] = "transform"
    /\ idx["p1"] = 1 /\ idx["p2"] = 1
    /\ file["p1"] # file["p2"]
    /\ issues["p1"] # <<>> /\ issues["p2"] = <<>>
    /\ Len(transactions["p1"]) = 1 /\ Len(transactions["p2"]) = 1

(* ---- C21 ---- *)

\* the phase of the invocation of p: 1 Initialized, 2 StructureValidated,
\* 3 RowsProcessed, 4 Summarized, 5 Done, 6 Aborted; 0 before the first call
Phase(p) ==
    CASE pc[p] \in {"none", "idle"} -> 0
      [] pc[p] \in {"read", "validate"} -> 1
      [] pc[p] = "transform" -> 2
      [] pc[p] = "summary" -> 3
      [] pc[p] = "return" -> 4
      [] pc[p] = "done" -> 5
      [] OTHER -> 6

InCall(p) == Phase(p) \in 1..4

Terminal(p) == Phase(p) \in {5, 6}

\* C21: an invocation goes through Initialized, StructureValidated,
\* RowsProcessed, Summarized, Done one after the other, or from one of the
\* first four to Aborted; a terminal phase is left only by a new call; rows
\* are transformed only on a table the structural validation accepted, some
\* row is left throughout StructureValidated and none from RowsProcessed on; a ProcessingResult exists in Done and
\* only there, an exception in Aborted and only there; and every call
\* that has begun reaches Done or Aborted.
C21_PhasesInOrder ==
    /\ [](\A p \in Procs :
              /\ result[p] # <<>> <=> Phase(p) = 5
              /\ error[p] # <<>> <=> Phase(p) = 6
              /\ Phase(p) = 2 => idx[p] < Len(df[p].rows)
              /\ Phase(p) \in {3, 4, 5} => idx[p] = Len(df[p].rows)
              /\ idx[p] > 0 => StructureAccepted(p))
    /\ [][\A p \in Procs :
             /\ Phase(p)' # Phase(p) =>
                    \/ Phase(p) \in {0, 5, 6} /\ Phase(p)' = 1
                    \/ Phase(p) = 0 /\ Phase(p)' = 0
                    \/ InCall(p) /\ Phase(p)' = Phase(p) + 1
                    \/ InCall(p) /\ Phase(p)' = 6
             /\ idx'[p] > idx[p] => Phase(p) = 2 /\ StructureAccepted(p)]_vars
    /\ \A p \in Procs : InCall(p) ~> Terminal(p)

\* a lenient call on a two-row table is Done with one row skipped
C21_Witness ==
    /\ Phase("p1") = 5
    /\ idx["p1"] = 2
    /\ result["p1"][1].skipped_rows = 1
    /\ result["p1"][1].processed_rows = 1
(* ---- C22 ---- *)

\* the description the cell of a row stands for
DescriptionOf(cell) ==
    IF IsEmptyCell(cell) THEN <<"No description">>
    ELSE IF Len(Strip(cell)) > 500 THEN SubSeq(Strip(cell), 1, 500)
    ELSE Strip(cell)

\* the dates the formats read in a date cell
ReadingsOf(cell) ==
    {ToDatetime(Strip(cell), f).date :
        f \in {g \in {DATE_FORMAT}
                         \cup {alternative_formats[i] : i \in 1..Len(alternative_formats)} :
                   ToDatetime(Strip(cell), g).ok}}

\* C22: the k-th step of the loop transforms the k-th row of the table
\* read from the file; the issues it records go to the end of the list
\* with row_number k, counted from 1; a draft it accepts goes to the end of
\* the drafts and is the one of that row; so issues are in row order with
\* row numbers of rows already transformed.
C22_RowsInOrder ==
    /\ [](\A p \in Procs : \A i \in 1..Len(issues[p]) :
              /\ issues[p][i].row_number \in 0..idx[p]
              /\ issues[p][i].row_number = 0 => i = 1
              /\ \A j \in i..Len(issues[p]) :
                     issues[p][i].row_number <= issues[p][j].row_number)
    /\ [][\A p \in Procs :
             RowTransformed(p) =>
                 /\ df[p].rows = file[p].table.rows
                 /\ Len(issues'[p]) >= Len(issues[p])
                 /\ SubSeq(issues'[p], 1, Len(issues[p])) = issues[p]
                 /\ \A i \in 1..Len(NewIssues(p)) :
                        NewIssues(p)[i].row_number = idx[p] + 1
                 /\ \/ transactions'[p] = transactions[p]
                    \/ /\ transactions'[p] = Append(transactions[p], NewDraft(p))
                       /\ NewDraft(p).description
                              = DescriptionOf(CurrentRow(p)[COL_DESCRIPTION + 1])
                       /\ NewDraft(p).date
                              \in ReadingsOf(CurrentRow(p)[COL_DATE + 1])]_vars

\* a lenient call has skipped its first row with an Error issue of row 1
\* and accepted its second row with an issue of row 2
C22_Witness ==
    /\ idx["p1"] = 2
    /\ skipped["p1"] = 1
    /\ Len(transactions["p1"]) = 1
    /\ Len(issues["p1"]) >= 2
    /\ issues["p1"][1].row_number = 1
    /\ issues["p1"][1].severity = "error"
    /\ issues["p1"][Len(issues["p1"])].row_number = 2
    /\ transactions["p1"][1].description
           = DescriptionOf(file["p1"].table.rows[2][COL_DESCRIPTION + 1])
(* ---- C23 ---- *)

\* the cell is wrapped in parentheses around a number with a leading minus
\* sign
EnclosesMinus(cell) ==
    /\ IsWrapped(cell)
    /\ StartsWith(RemoveChars(Enclosed(cell), {"$", EuroSign, PoundSign, ",", " "}), "-")

\* the cell is empty or denotes a number, without parentheses
PlainMoney(cell) == CreditParses(cell) /\ ~IsWrapped(cell)

\* the row under transformation has a date, in cell column a number with a
\* minus sign in parentheses, and in the other monetary cell a plain number
MinusInParentheses(p, column, other) ==
    /\ RowTransformed(p)
    /\ DateParses(CurrentRow(p)[COL_DATE + 1])
    /\ EnclosesMinus(CurrentRow(p)[column + 1])
    /\ PlainMoney(CurrentRow(p)[other + 1])

\* C23 as stated: a cell in parentheses around a number with a leading
\* minus sign is negated twice and parses to the positive magnitude:
\* "(-50.00)" parses to +50.00.
C23_DoubleNegation ==
    [][\A p \in Procs :
          /\ MinusInParentheses(p, COL_DEBIT, COL_CREDIT) =>
                 /\ RowAccepted(p)
                 /\ NewDraft(p).amount =
                        Cents(CellCents(CurrentRow(p)[COL_CREDIT + 1])
                              + CellCents(Enclosed(CurrentRow(p)[COL_DEBIT + 1])))
          /\ MinusInParentheses(p, COL_CREDIT, COL_DEBIT) =>
                 /\ RowAccepted(p)
                 /\ NewDraft(p).amount =
                        Cents(0 - CellCents(Enclosed(CurrentRow(p)[COL_CREDIT + 1]))
                              - CellCents(CurrentRow(p)[COL_DEBIT + 1]))]_vars

\* C23 amended: the parentheses and the minus sign mark the same cell
\* negative and the value is negated once: the cell parses to the
\* enclosed negative number, "(-50.00)" to -50.00.
C23_SignTakenOnce ==
    [][\A p \in Procs :
          /\ MinusInParentheses(p, COL_DEBIT, COL_CREDIT) =>
                 /\ RowAccepted(p)
                 /\ NewDraft(p).amount =
                        Cents(CellCents(CurrentRow(p)[COL_CREDIT + 1])
                              - CellCents(Enclosed(CurrentRow(p)[COL_DEBIT + 1])))
          /\ MinusInParentheses(p, COL_CREDIT, COL_DEBIT) =>
                 /\ RowAccepted(p)
                 /\ NewDraft(p).amount =
                        Cents(CellCents(Enclosed(CurrentRow(p)[COL_CREDIT + 1]))
                              - CellCents(CurrentRow(p)[COL_DEBIT + 1]))]_vars

\* a returned call whose row has debit "(-50.00)" and credit "0.00": its
\* amount is +50.00, the debit having parsed to -50.00
C23_Witness ==
    \E p \in Procs :
        /\ pc[p] = "done"
        /\ df[p].rows[1][COL_DEBIT + 1] = M_parenneg
        /\ df[p].rows[1][COL_CREDIT + 1] = M_zero
        /\ Len(result[p][1].transactions) = 1
        /\ result[p][1].transactions[1].amount = Cents(5000)
(* ---- C24 ---- *)

\* the severities of the issues of a sequence, in order
Severities(seq) == [i \in 1..Len(seq) |-> seq[i].severity]

\* the cell parses to the Decimal NaN
IsNaNCell(cell) == ~IsEmptyCell(cell) /\ Denoted(cell).valid /\ Denoted(cell).nan

\* C24: when the date is valid and both monetary cells parse to d and c,
\* the row is accepted with amount c - d, and its issues of column None
\* are one Warning if d and c are both non-zero, then one Info if c - d is
\* zero, and no other; so for d = c non-zero, the Warning and then the
\* Info.  A cell that parses to NaN counts as non-zero and gives the
\* amount NaN, which is not zero.
C24_UnusualAmountsAccepted ==
    [][\A p \in Procs :
          /\ (/\ RowTransformed(p)
              /\ DateParses(CurrentRow(p)[COL_DATE + 1])
              /\ CreditParses(CurrentRow(p)[COL_DEBIT + 1])
              /\ CreditParses(CurrentRow(p)[COL_CREDIT + 1])) =>
                 LET d == CellCents(CurrentRow(p)[COL_DEBIT + 1])
                     c == CellCents(CurrentRow(p)[COL_CREDIT + 1])
                 IN  /\ RowAccepted(p)
                     /\ skipped'[p] = skipped[p]
                     /\ NewDraft(p).amount = Cents(c - d)
                     /\ Severities(IssuesOfColumn(NewIssues(p), "None"))
                            = (IF d # 0 /\ c # 0 THEN <<"warning">> ELSE <<>>)
                              \o (IF c - d = 0 THEN <<"info">> ELSE <<>>)
                     /\ \A i \in 1..Len(NewIssues(p)) :
                            NewIssues(p)[i].severity # "error"
          /\ \A column \in {COL_DEBIT, COL_CREDIT} :
                 (/\ RowTransformed(p)
                  /\ DateParses(CurrentRow(p)[COL_DATE + 1])
                  /\ IsNaNCell(CurrentRow(p)[column + 1])
                  /\ CreditParses(CurrentRow(p)[COL_DEBIT + COL_CREDIT - column + 1])) =>
                     /\ RowAccepted(p)
                     /\ NewDraft(p).amount.nan
                     /\ Severities(IssuesOfColumn(NewIssues(p), "None"))
                            = IF CellCents(CurrentRow(p)[COL_DEBIT + COL_CREDIT - column + 1]) # 0
                              THEN <<"warning">> ELSE <<>>]_vars

\* a returned call whose row has debit 50.00 and credit 50.00: the draft
\* has amount 0.00, and the Warning and the Info are recorded in that order
C24_Witness ==
    \E p \in Procs :
        /\ pc[p] = "done"
        /\ df[p].rows[1][COL_DEBIT + 1] = M_fifty
        /\ df[p].rows[1][COL_CREDIT + 1] = M_fifty
        /\ Len(result[p][1].transactions) = 1
        /\ result[p][1].transactions[1].amount = Cents(0)
        /\ Severities(IssuesOfColumn(result[p][1].issues, "None")) = <<"warning", "info">>
(* ---- C25 ---- *)

\* transforming the row raises an exception that is none of the classified
\* ones
RaisesUnclassified(row) ==
    /\ ~IsNa(row[COL_DATE + 1])
    /\ Strip(row[COL_DATE + 1]) # <<>>
    /\ RaisesUnexpected(Strip(row[COL_DATE + 1]))

\* C25: when transforming row n raises an unclassified exception, a
\* lenient call records one Error issue with row_number n, column None and
\* the message of the exception, counts the row as skipped, accepts no
\* draft and goes on to row n + 1 (to the summary after the last row); a
\* strict call aborts with a CSVValidationError "Row n: <message>" and
\* records no issue; an aborted call has no result.
C25_UnexpectedExceptionPerMode ==
    /\ [](\A p \in Procs : pc[p] = "raised" => result[p] = <<>>)
    /\ [][\A p \in Procs :
             (RowTransformed(p) /\ RaisesUnclassified(CurrentRow(p))) =>
                 /\ transactions'[p] = transactions[p]
                 /\ result'[p] = <<>>
                 /\ IF strict_mode[p]
                    THEN /\ pc'[p] = "raised"
                         /\ error'[p] =
                                << Exception("CSVValidationError",
                                             <<"Row ">> \o NatToText(idx[p] + 1)
                                                 \o <<": ">> \o UnexpectedMessage) >>
                         /\ issues'[p] = issues[p]
                    ELSE /\ NewIssues(p) =
                                << Issue(idx[p] + 1, "None", "error",
                                         UnexpectedMessage, NoneText) >>
                         /\ skipped'[p] = skipped[p] + 1
                         /\ error'[p] = <<>>
                         /\ pc'[p] = IF idx[p] + 1 < Len(df[p].rows)
                                     THEN "transform" ELSE "summary"]_vars

\* a lenient call whose first row raised has gone on and accepted its
\* second row
C25_Witness ==
    /\ ~strict_mode["p1"]
    /\ pc["p1"] = "done"
    /\ Len(df["p1"].rows) = 2
    /\ RaisesUnclassified(df["p1"].rows[1])
    /\ skipped["p1"] = 1
    /\ Len(result["p1"][1].transactions) = 1
    /\ result["p1"][1].issues[1]
           = Issue(1, "None", "error", UnexpectedMessage, NoneText)
(* ---- C26 ---- *)

\* C26: a result has total_rows = processed_rows + skipped_rows, with
\* total_rows the rows of the table and processed_rows the number of its
\* drafts; and every row transformed without aborting the call adds one
\* either to the drafts or to skipped, never to both and never to neither.
C26_RowConservation ==
    /\ [](\A p \in Procs :
              /\ result[p] # <<>> =>
                     /\ result[p][1].total_rows = Len(file[p].table.rows)
                     /\ result[p][1].total_rows
                            = result[p][1].processed_rows + result[p][1].skipped_rows
                     /\ result[p][1].processed_rows = Len(result[p][1].transactions)
                     /\ result[p][1].skipped_rows = skipped[p]
              /\ pc[p] \in {"transform", "summary", "return", "done"} =>
                     idx[p] = Len(transactions[p]) + skipped[p])
    /\ [][\A p \in Procs :
             (RowTransformed(p) /\ pc'[p] # "raised") =>
                 \/ /\ Len(transactions'[p]) = Len(transactions[p]) + 1
                    /\ skipped'[p] = skipped[p]
                 \/ /\ transactions'[p] = transactions[p]
                    /\ skipped'[p] = skipped[p] + 1]_vars

\* a lenient result on a two-row table with one row accepted and the
\* other skipped
C26_Witness ==
    /\ result["p1"] # <<>>
    /\ result["p1"][1].total_rows = 2
    /\ result["p1"][1].processed_rows = 1
    /\ result["p1"][1].skipped_rows = 1
    /\ Len(result["p1"][1].transactions) = 1
    /\ result["p1"][1].issues[1].row_number = 2
(* ---- C27 ---- *)

\* the row numbers, from 1 on, that have an Error issue in the sequence
ErrorRows(seq) ==
    {seq[i].row_number : i \in {j \in 1..Len(seq) :
                                    IsErrorIssue(seq[j]) /\ seq[j].row_number >= 1}}

\* C27: in a lenient call the skipped rows are the rows with an Error
\* issue: skipped counts the distinct row numbers with one, in the result
\* as after every row; a row that is accepted records no Error issue and a
\* row that is skipped records at least one.
C27_SkippedIffErrorIssue ==
    /\ [](\A p \in Procs :
              ~strict_mode[p] =>
                  /\ pc[p] \in {"transform", "summary", "return", "done"} =>
                         /\ skipped[p] = Cardinality(ErrorRows(issues[p]))
                         /\ Len(transactions[p]) = idx[p] - Cardinality(ErrorRows(issues[p]))
                  /\ result[p] # <<>> =>
                         /\ result[p][1].skipped_rows
                                = Cardinality(ErrorRows(result[p][1].issues))
                         /\ result[p][1].processed_rows
                                = result[p][1].total_rows
                                  - Cardinality(ErrorRows(result[p][1].issues)))
    /\ [][\A p \in Procs :
             (RowTransformed(p) /\ ~strict_mode[p]) =>
                 /\ RowAccepted(p) <=> ~HasErrorIssue(NewIssues(p))
                 /\ skipped'[p] = skipped[p] + 1 <=> HasErrorIssue(NewIssues(p))
                 /\ ErrorRows(NewIssues(p)) \subseteq {idx[p] + 1}]_vars

\* a lenient result on a two-row table: the first row has two Error
\* issues and is skipped once, the second is accepted
C27_Witness ==
    /\ ~strict_mode["p1"]
    /\ result["p1"] # <<>>
    /\ result["p1"][1].skipped_rows = 1
    /\ result["p1"][1].processed_rows = 1
    /\ Len(error_issues(result["p1"][1].issues, 1)) = 2
    /\ ErrorRows(result["p1"][1].issues) = {1}
(* ---- C28 ---- *)

\* the monetary cell has text that is no number
MoneyInvalid(cell) == ~IsEmptyCell(cell) /\ ~Denoted(cell).valid

\* the columns of the issues of a sequence, in order
Columns(seq) == [i \in 1..Len(seq) |-> seq[i].column]

\* C28: a row whose date does not parse records issues of column Date
\* only, whatever its other cells are; a row with a valid date whose debit
\* and credit are both invalid records two Error issues, for Debit and
\* then for Credit, and is skipped once, and a strict call aborts with the
\* message of the Debit issue.
C28_ShortCircuitOnDateOnly ==
    [][\A p \in Procs :
          /\ (RowTransformed(p) /\ DateUnparseable(CurrentRow(p)[COL_DATE + 1])) =>
                 /\ NewIssues(p) # <<>>
                 /\ \A i \in 1..Len(NewIssues(p)) : NewIssues(p)[i].column = "Date"
                 /\ transactions'[p] = transactions[p]
          /\ (/\ RowTransformed(p)
              /\ DateParses(CurrentRow(p)[COL_DATE + 1])
              /\ MoneyInvalid(CurrentRow(p)[COL_DEBIT + 1])
              /\ MoneyInvalid(CurrentRow(p)[COL_CREDIT + 1])) =>
                 LET errors == SelectSeq(NewIssues(p), IsErrorIssue)
                 IN  /\ Columns(errors) = <<"Debit", "Credit">>
                     /\ errors[1].original_value = CurrentRow(p)[COL_DEBIT + 1]
                     /\ errors[2].original_value = CurrentRow(p)[COL_CREDIT + 1]
                     /\ skipped'[p] = skipped[p] + 1
                     /\ transactions'[p] = transactions[p]
                     /\ IF strict_mode[p]
                        THEN /\ pc'[p] = "raised"
                             /\ error'[p] =
                                    << Exception("CSVValidationError",
                                                 <<"Row ">> \o NatToText(idx[p] + 1)
                                                     \o <<": ">> \o errors[1].message) >>
                        ELSE pc'[p] # "raised" /\ error'[p] = <<>>]_vars

\* a strict call has aborted on a first row with a valid date and two
\* invalid monetary cells, both issues recorded
C28_Witness ==
    /\ strict_mode["p1"]
    /\ pc["p1"] = "raised"
    /\ idx["p1"] = 1
    /\ MoneyInvalid(df["p1"].rows[1][COL_DEBIT + 1])
    /\ MoneyInvalid(df["p1"].rows[1][COL_CREDIT + 1])
    /\ Columns(SelectSeq(issues["p1"], IsErrorIssue)) = <<"Debit", "Credit">>
    /\ error["p1"][1].kind = "CSVValidationError"
(* ---- C29 ---- *)

\* a step in which process_csv is entered on p
CallBegins(p) == pc[p] \in {"idle", "done", "raised"} /\ pc'[p] = "read"

\* C29: every call on a processor, the first as one after a returned or
\* an aborted call, begins with an empty issue list and a batch id that
\* no earlier call had; no step changes a result the caller keeps, its
\* issues and batch id included; and the results kept for the same file
\* have the same issues, whatever was processed in between, under batch
\* ids of their own.
C29_CallsStartAfresh ==
    /\ [](\A i, j \in 1..Len(kept) :
              /\ i # j => kept[i].result.batch_id # kept[j].result.batch_id
              /\ kept[i].file = kept[j].file =>
                     kept[i].result.issues = kept[j].result.issues
              /\ \A k \in 1..Len(kept[i].result.issues) :
                     kept[i].result.issues[k].row_number
                         <= Len(kept[i].file.table.rows))
    /\ [][/\ \A p \in Procs :
                CallBegins(p) =>
                    /\ issues'[p] = <<>>
                    /\ batch_id'[p] # batch_id[p]
                    /\ \A i \in 1..Len(batch_log) : batch_log[i] # batch_id'[p]
          /\ Len(kept') >= Len(kept)
          /\ \A i \in 1..Len(kept) : kept'[i] = kept[i]]_vars

\* the caller keeps the results of two calls on the same file, both with
\* the issues of that file, and the processor has begun no further call
C29_Witness ==
    /\ Len(kept) = 2
    /\ kept[1].file = kept[2].file
    /\ kept[1].result.issues # <<>>
    /\ kept[1].result.issues = kept[2].result.issues
    /\ kept[1].issues_ref # kept[2].issues_ref
    /\ kept[1].result.batch_id # kept[2].result.batch_id
(* ---- C30 ---- *)

\* the stored rows of batch b, in order
RowsOfBatch(rows, b) == SelectSeq(rows, LAMBDA t : t.import_batch_id = b)

\* the stored rows of the other batches, in order
RowsOfOtherBatches(rows, b) == SelectSeq(rows, LAMBDA t : t.import_batch_id # b)

\* a draft without its batch id
DraftFields(t) ==
    << t.account_id, t.date, t.description, t.amount, t.category, t.is_verified >>

\* the step answers the upload p with success
UploadSucceeds(p) == response[p] = "processing" /\ response'[p] = "200"

\* C30: while an upload is processed, and after its processing failed,
\* whatever the exception, no row of its batch is stored, and the step
\* that answers a failed upload changes no stored row; the step that
\* answers a successful upload comes after the result was returned and
\* adds one row per draft of the result, in order, all under the batch id
\* of the result, which no other stored row has; stored rows change in no
\* other way than by this and by delete_batch, which removes the rows of
\* its batch id, all of them, and leaves the others as they were.
C30_PersistAfterReturn ==
    /\ [](\A p \in Procs :
              (response[p] = "processing" \/ (response[p] \in {"400", "500"} /\ pc[p] = "raised"))
                  => RowsOfBatch(stored, batch_id[p]) = <<>>)
    /\ [][/\ \A p \in Procs :
                /\ (response[p] = "processing" /\ response'[p] \in {"400", "500"}) =>
                       /\ pc[p] = "raised"
                       /\ stored' = stored
                /\ UploadSucceeds(p) =>
                       /\ pc[p] = "done"
                       /\ result[p] # <<>>
                       /\ RowsOfOtherBatches(stored', result[p][1].batch_id) = stored
                       /\ Len(RowsOfBatch(stored', result[p][1].batch_id))
                              = Len(result[p][1].transactions)
                       /\ \A i \in 1..Len(result[p][1].transactions) :
                              DraftFields(RowsOfBatch(stored', result[p][1].batch_id)[i])
                                  = DraftFields(result[p][1].transactions[i])
          /\ stored' # stored =>
                 \/ \E p \in Procs : UploadSucceeds(p)
                 \/ \E b \in 1..uuid_count :
                        /\ response'["delete"] = "204"
                        /\ RowsOfBatch(stored, b) # <<>>
                        /\ RowsOfBatch(stored', b) = <<>>
                        /\ stored' = RowsOfOtherBatches(stored, b)]_vars

\* two batches were stored, the first of two rows, and delete_batch has
\* removed the first: the one row of the second is left
C30_Witness ==
    /\ response["delete"] = "204"
    /\ Len(batch_log) = 2
    /\ RowsOfBatch(stored, batch_log[1]) = <<>>
    /\ Len(RowsOfBatch(stored, batch_log[2])) = 1
    /\ stored = RowsOfBatch(stored, batch_log[2])
    /\ \E p \in Procs :
           /\ response[p] = "200"
           /\ result[p] # <<>>
           /\ result[p][1].batch_id = batch_log[1]
           /\ Len(result[p][1].transactions) = 2
====
